---- MODULE Spec2Model ----
(***************************************************************************)
(* A model of the conversational booking engine of the salon management    *)
(* API (services/booking_service.py): the per-recipient session store, the *)
(* retry counter, the state handlers and the appointment store they read   *)
(* and write.                                                              *)
(*                                                                         *)
(* Collaborators (the crud layer and the messaging gateway) are modelled   *)
(* at the boundary the engine relies on: a call returns its value, returns *)
(* nothing, or raises.  TwilioService.send_sms swallows every error and    *)
(* contains no await, so a send never raises and never suspends: it is a   *)
(* synchronous request, and no coroutine runs until it has returned.       *)
(***************************************************************************)
EXTENDS Integers, Sequences, FiniteSets, TLC

VARIABLES
    user_states,    \* BookingService.user_states : phone -> session | NoSession
    retry_counts,   \* BookingService.retry_counts: phone -> count, 0 = no entry
    appointments,   \* the appointments collection of the database
    users,          \* number of user records stored per phone number
    now,            \* the wall clock, in minutes
    sent,           \* texts sent to each phone while its last message was handled
    last,           \* the last message handled: who, what, and the state it met
    inflight,       \* the handler coroutines suspended in a collaborator call
    serial          \* the stores had every message been handled alone, in arrival order

vars == <<user_states, retry_counts, appointments, users, now, sent, last,
          inflight, serial>>

----------------------------------------------------------------------------
(* Bounds of the model *)

MaxNow == 31            \* the clock stops advancing here
RetryCap == 3           \* retry_counts saturates here (the code's is unbounded)
MaxUserRecords == 2     \* user records per phone saturate here
MaxInFlight == 2        \* handler coroutines that can be suspended at once

(* Program constants *)

TimeoutMinutes == 30
MaxRetries == 3
MaxCartItems == 5
MinPasswordLen == 8

----------------------------------------------------------------------------
(* Fixtures: recipients, inbound texts and the domain records of the store *)

Phones == {"A", "B"}
SeqPhones == {"A"}
Handlers == 1..MaxInFlight

NoSession == [state |-> "no_session"]
Absent == "absent"
NoDate == 0

\* str.lower() and str.upper() on the texts of Inputs
Lower(m) == CASE m = "LOGIN" -> "login"
              [] m = "REGISTER" -> "register"
              [] m = "Hello" -> "hello"
              [] m = " Jane " -> " jane "
              [] OTHER -> m

Upper(m) == CASE m = "hi" -> "HI"
              [] m = "Hello" -> "HELLO"
              [] m = " Jane " -> " JANE "
              [] m = "jane@x.com" -> "JANE@X.COM"
              [] m = "cancel" -> "CANCEL"
              [] m = "confirm" -> "CONFIRM"
              [] m = "add more" -> "ADD MORE"
              [] m = "abc" -> "ABC"
              [] OTHER -> m

\* int(message.strip()): the number, or ValueError
ValueError == -1
ParseInt(m) == CASE m = "1" -> 1
                 [] m = "2" -> 2
                 [] m = "3" -> 3
                 [] m = "9" -> 9
                 [] OTHER -> ValueError

\* len(message.strip())
StripLen(m) == CASE m = "hi" -> 2
                 [] m = "Hello" -> 5
                 [] m = " Jane " -> 4
                 [] m = "jane@x.com" -> 10
                 [] m = "cancel" -> 6
                 [] m = "LOGIN" -> 5
                 [] m = "REGISTER" -> 8
                 [] m = "confirm" -> 7
                 [] m = "add more" -> 8
                 [] m = "abc" -> 3
                 [] OTHER -> 1

Greetings == {"hi", "hello", "hey", "start"}

\* pydantic's EmailStr accepts the text (UserCreate.email)
IsEmail(text) == text = "jane@x.com"

\* The domain records the collaborators return
AllSalons == <<"S1", "S2", "S3">>

SalonServices(salon) == CASE salon = "S1" -> <<"V1">>
                          [] salon = "S3" -> <<"V2", "V3">>
                          [] OTHER -> <<>>

SalonExperts(salon) == IF salon = "S1" THEN <<"E1", "E2">> ELSE <<>>

\* TIME_LABELS, cut to its first three hourly buckets
TIME_LABELS == <<"09:00 AM", "10:00 AM", "11:00 AM">>

\* datetime.strptime(label, "%I:%M %p").time().hour
HourOfLabel(label) == CASE label = "09:00 AM" -> 9
                        [] label = "10:00 AM" -> 10
                        [] label = "11:00 AM" -> 11
                        [] label = "12:00 PM" -> 12
                        [] OTHER -> 0

\* time.strftime("%I:%M %p") of a whole hour
LabelOfHour(h) == CASE h = 9 -> "09:00 AM"
                    [] h = 10 -> "10:00 AM"
                    [] h = 11 -> "11:00 AM"
                    [] h = 12 -> "12:00 PM"
                    [] OTHER -> "12:00 AM"

Midnight == 0

\* datetime.weekday() of the day numbered d (today is day 0, a Monday)
Weekday(d) == d % 7

\* mutant: no expert is available
ExpertIsAvailable_Never(expert) == FALSE

\* the expert_availability documents: is_available and the weekly template
ExpertIsAvailable(expert) == expert = "E1"

WeeklyTemplate(expert, weekday) ==
    IF expert # "E1" THEN <<FALSE, FALSE, FALSE>>
    ELSE CASE weekday = 1 -> <<TRUE, FALSE, TRUE>>
           [] weekday = 2 -> <<TRUE, TRUE, FALSE>>
           [] OTHER -> <<FALSE, FALSE, FALSE>>

----------------------------------------------------------------------------
(* The session store, the retry counter and the outbox, as one value that  *)
(* the handlers below transform: w.us, w.rc, w.appts, w.users, w.sent      *)

World == [us |-> user_states, rc |-> retry_counts, appts |-> appointments,
          users |-> users, sent |-> sent]

\* a session as the code creates it: state, user_id when known, last_message_time;
\* every other key is absent (lists read as [] through dict.get)
NewSession(st, uid, t) ==
    [state |-> st, user_id |-> uid, last_message_time |-> t,
     registration_step |-> Absent,
     registration_data |-> [name |-> Absent, email |-> Absent, address |-> Absent,
                            password |-> Absent],
     salons |-> <<>>, selected_salon |-> Absent,
     services |-> <<>>, selected_service |-> Absent,
     experts |-> <<>>, selected_expert |-> Absent,
     available_dates |-> <<>>, selected_date |-> NoDate,
     available_time_slots |-> <<>>, selected_services |-> <<>>]

HasSession(w, p) == w.us[p] # NoSession

Text(tag) == [tag |-> tag, data |-> <<>>]

List(tag, options) == [tag |-> tag, data |-> options]

\* TwilioService.send_sms: appends to the outbox, never raises
send_sms(w, p, text) == [w EXCEPT !.sent[p] = Append(@, text)]

send_welcome_message(w, p) == send_sms(w, p, Text("welcome"))

send_registration_prompt(w, p) == send_sms(w, p, Text("registration_prompt"))

\* mutant: the reset drops the session and keeps the retry entry
_reset_user_state_KeepsRetry(w, p) == [w EXCEPT !.us[p] = NoSession]

_reset_user_state(w, p) == [w EXCEPT !.us[p] = NoSession, !.rc[p] = 0]

valid_transitions(current_state) ==
    CASE current_state = "welcome" -> {"registration", "salon_selection"}
      [] current_state = "registration" -> {"salon_selection"}
      [] current_state = "salon_selection" -> {"service_selection"}
      [] current_state = "service_selection" -> {"expert_selection"}
      [] current_state = "expert_selection" -> {"date_selection"}
      [] current_state = "date_selection" -> {"time_selection"}
      [] current_state = "time_selection" -> {"confirmation"}
      [] current_state = "confirmation" -> {"salon_selection"}
      [] OTHER -> {}

_validate_state_transition(current_state, next_state) ==
    next_state \in valid_transitions(current_state)

Min(a, b) == IF a < b THEN a ELSE b

\* _increment_retry: the store after the increment, and the value it returns
IncrementedRetry(w, p) == [w EXCEPT !.rc[p] = Min(@ + 1, RetryCap)]

\* mutant: the retry limit is never reported as reached
_increment_retry_Never(w, p) == FALSE

_increment_retry(w, p) == IncrementedRetry(w, p).rc[p] >= MaxRetries

----------------------------------------------------------------------------
(* Collaborator faults: f names the collaborator call that raises while    *)
(* one message is handled (k: which of its calls, where it is called in a  *)
(* loop); NoFault lets every call return.                                  *)

Fault(call, k) == [call |-> call, k |-> k]

NoFault == Fault("none", 0)

Raises(f, call) == f.call = call

RaisesAt(f, call, k) == f.call = call /\ f.k = k

\* user ids of the records stored for one phone, in creation order
UserId(k) == IF k = 1 THEN "U1" ELSE "U2"

\* mutant: the lookup never finds a user
get_user_by_phone_Never(w, p) == Absent

\* get_user_by_phone: find_one returns the first record of the phone
get_user_by_phone(w, p) == IF w.users[p] >= 1 THEN UserId(1) ELSE Absent

\* mutant: create_user returns without inserting
create_user_Nothing(w, p) == w

\* create_user: inserts a record whatever the store already holds
create_user(w, p) == [w EXCEPT !.users[p] = Min(@ + 1, MaxUserRecords)]

Numbered(options) == [i \in 1..Len(options) |-> [n |-> i, option |-> options[i]]]

----------------------------------------------------------------------------
(* The list steps *)

\* the salon list step with a failure text that quotes the error, as
\* f"... {str(e)}" would
_show_salons_TellsError(w, p, f) ==
    IF Raises(f, "get_all_salons")
    THEN _reset_user_state(send_sms(w, p, List("something_wrong", <<f>>)), p)
    ELSE IF AllSalons = <<>>
    THEN send_sms(w, p, Text("no_salons"))
    ELSE IF ~HasSession(w, p)
    THEN _reset_user_state(send_sms(w, p, Text("something_wrong")), p)
    ELSE send_sms([w EXCEPT !.us[p].salons = AllSalons], p,
                  List("salon_list", Numbered(AllSalons)))

_show_salons(w, p, f) ==
    IF Raises(f, "get_all_salons")
    THEN _reset_user_state(send_sms(w, p, Text("something_wrong")), p)
    ELSE IF AllSalons = <<>>
    THEN send_sms(w, p, Text("no_salons"))
    ELSE IF ~HasSession(w, p)
    THEN _reset_user_state(send_sms(w, p, Text("something_wrong")), p)
    ELSE send_sms([w EXCEPT !.us[p].salons = AllSalons], p,
                  List("salon_list", Numbered(AllSalons)))

\* the services that get_service returned, each with the number enumerate() gave it
RECURSIVE LoadedServices(_, _, _)
LoadedServices(service_ids, i, f) ==
    IF i > Len(service_ids) THEN <<>>
    ELSE IF RaisesAt(f, "get_service", i)
         THEN LoadedServices(service_ids, i + 1, f)
         ELSE <<[n |-> i, option |-> service_ids[i]]>>
              \o LoadedServices(service_ids, i + 1, f)

Options(numbered) == [i \in 1..Len(numbered) |-> numbered[i].option]

_show_services(w, p, f) ==
    LET failed == _reset_user_state(send_sms(w, p, Text("trouble_services")), p)
    IN  IF ~HasSession(w, p) THEN failed
        ELSE IF w.us[p].selected_salon = Absent THEN failed
        ELSE IF Raises(f, "get_salon_services") THEN failed
        ELSE LET service_ids == SalonServices(w.us[p].selected_salon)
                 loaded == LoadedServices(service_ids, 1, f)
             IN  IF service_ids = <<>>
                 THEN _reset_user_state(send_sms(w, p, Text("no_services")), p)
                 ELSE IF loaded = <<>>
                 THEN _reset_user_state(send_sms(w, p, Text("error_loading_services")), p)
                 ELSE send_sms([w EXCEPT !.us[p].services = Options(loaded)], p,
                               List("service_list", loaded))

_show_experts(w, p, f) ==
    LET failed == _reset_user_state(send_sms(w, p, Text("trouble_experts")), p)
    IN  IF ~HasSession(w, p) THEN failed
        ELSE IF w.us[p].selected_salon = Absent THEN failed
        ELSE IF Raises(f, "get_salon_experts") THEN failed
        ELSE LET expert_list == SalonExperts(w.us[p].selected_salon)
             IN  IF expert_list = <<>>
                 THEN _reset_user_state(send_sms(w, p, Text("no_experts")), p)
                 ELSE send_sms([w EXCEPT !.us[p].experts = expert_list], p,
                               List("expert_list", Numbered(expert_list)))

\* the dates _show_available_dates lists, cut to the first: tomorrow, day 1
NextDays == <<1>>

_show_available_dates(w, p) ==
    IF ~HasSession(w, p)
    THEN _reset_user_state(send_sms(w, p, Text("trouble_dates")), p)
    ELSE send_sms([w EXCEPT !.us[p].available_dates = NextDays], p,
                  List("date_list", Numbered(NextDays)))

Active == {"pending", "confirmed"}

\* appointments.find({expert_id, appointment_date, appointment_time, status in Active})
FindAppointments(appts, expert, date, label) ==
    {a \in appts : /\ a.expert_id = expert
                   /\ a.appointment_date = date
                   /\ a.appointment_time = label
                   /\ a.status \in Active}

\* the slot dict of _show_available_times: start_time and the label one hour on
Slot(label) == [start_time |-> label, end_time |-> LabelOfHour(HourOfLabel(label) + 1)]

\* selected_date as _show_available_times parses it: the day at 00:00
ListingDate(day) == [day |-> day, hour |-> Midnight]

RECURSIVE OpenSlots(_, _, _, _, _)
OpenSlots(appts, expert, day, slots_for_day, i) ==
    IF i > Len(slots_for_day) THEN <<>>
    ELSE IF slots_for_day[i]
            /\ FindAppointments(appts, expert, ListingDate(day), TIME_LABELS[i]) = {}
         THEN <<Slot(TIME_LABELS[i])>> \o OpenSlots(appts, expert, day, slots_for_day, i + 1)
         ELSE OpenSlots(appts, expert, day, slots_for_day, i + 1)

AnyTrue(flags) == \E i \in 1..Len(flags) : flags[i]

_show_available_times(w, p, f) ==
    LET failed == _reset_user_state(send_sms(w, p, Text("something_wrong")), p)
    IN  IF ~HasSession(w, p) THEN failed
        ELSE LET state == w.us[p]
                 expert_id == state.selected_expert
                 day == state.selected_date
             IN  IF state.selected_salon = Absent \/ expert_id = Absent \/ day = NoDate
                 THEN failed
                 ELSE IF Raises(f, "get_expert_availability") THEN failed
                 ELSE IF ~ExpertIsAvailable(expert_id)
                 THEN _show_experts(
                        [send_sms(w, p, Text("expert_not_available"))
                           EXCEPT !.us[p].state = "expert_selection"], p, f)
                 ELSE LET slots_for_day == WeeklyTemplate(expert_id, Weekday(day))
                          available_slots ==
                              OpenSlots(w.appts, expert_id, day, slots_for_day, 1)
                          back == _show_available_dates(
                                    [send_sms(w, p, Text("no_slots"))
                                       EXCEPT !.us[p].state = "date_selection"], p)
                      IN  IF ~AnyTrue(slots_for_day) THEN back
                          ELSE IF Raises(f, "appointments.find") THEN failed
                          ELSE IF available_slots = <<>> THEN back
                          ELSE send_sms(
                                 [w EXCEPT !.us[p].available_time_slots = available_slots,
                                           !.us[p].state = "time_selection"], p,
                                 List("time_list", Numbered(available_slots)))

----------------------------------------------------------------------------
(* The selection steps *)

\* mutant: giving up removes the session and keeps the retry entry
RetryOrGiveUp_KeepsCount(w, p, correction) ==
    IF _increment_retry(w, p)
    THEN send_sms([IncrementedRetry(w, p) EXCEPT !.us[p] = NoSession], p,
                  Text("too_many_attempts"))
    ELSE send_sms(IncrementedRetry(w, p), p, Text(correction))

\* an invalid input where the handler gives up on the third: salon, date, time
\* and confirmation
RetryOrGiveUp(w, p, correction) ==
    IF _increment_retry(w, p)
    THEN send_sms(_reset_user_state(IncrementedRetry(w, p), p), p,
                  Text("too_many_attempts"))
    ELSE send_sms(IncrementedRetry(w, p), p, Text(correction))

InRange(n, options) == 1 <= n /\ n <= Len(options)

_handle_salon_selection_state(w, p, m, f) ==
    LET n == ParseInt(m)
    IN  IF n = ValueError THEN RetryOrGiveUp(w, p, "enter_valid_number")
        ELSE IF ~HasSession(w, p)
        THEN _reset_user_state(send_sms(w, p, Text("trouble_salon_selection")), p)
        ELSE IF w.us[p].salons = <<>> THEN _show_salons(w, p, f)
        ELSE IF InRange(n, w.us[p].salons)
        THEN IF ~_validate_state_transition(w.us[p].state, "service_selection")
             THEN send_sms(_reset_user_state(w, p), p, Text("invalid_transition"))
             ELSE _show_services(
                    [w EXCEPT !.us[p].state = "service_selection",
                              !.us[p].selected_salon = w.us[p].salons[n]], p, f)
        ELSE RetryOrGiveUp(w, p, "invalid_selection")

\* an invalid input in service selection: no text is sent, and from the third on
\* the list is shown again
_retry_show_services(w, p, f) ==
    IF _increment_retry(w, p)
    THEN _show_services(IncrementedRetry(w, p), p, f)
    ELSE IncrementedRetry(w, p)

_handle_service_selection_state(w, p, m, f) ==
    LET n == ParseInt(m)
    IN  IF n = ValueError \/ ~HasSession(w, p) THEN _retry_show_services(w, p, f)
        ELSE IF w.us[p].services = <<>> THEN _show_services(w, p, f)
        ELSE IF InRange(n, w.us[p].services)
        THEN IF ~_validate_state_transition(w.us[p].state, "expert_selection")
             THEN _reset_user_state(w, p)
             ELSE _show_experts(
                    [w EXCEPT !.us[p].state = "expert_selection",
                              !.us[p].selected_service = w.us[p].services[n]], p, f)
        ELSE _retry_show_services(w, p, f)

_retry_show_experts(w, p, f) ==
    IF _increment_retry(w, p)
    THEN _show_experts(IncrementedRetry(w, p), p, f)
    ELSE IncrementedRetry(w, p)

\* mutant: a chosen expert takes the session straight to time_selection
_handle_expert_selection_state_SkipsDates(w, p, m, f) ==
    LET n == ParseInt(m)
    IN  IF n = ValueError \/ ~HasSession(w, p) THEN _retry_show_experts(w, p, f)
        ELSE IF w.us[p].experts = <<>> THEN _show_experts(w, p, f)
        ELSE IF InRange(n, w.us[p].experts)
        THEN _show_available_dates(
               [w EXCEPT !.us[p].state = "time_selection",
                         !.us[p].selected_expert = w.us[p].experts[n]], p)
        ELSE _retry_show_experts(w, p, f)

_handle_expert_selection_state(w, p, m, f) ==
    LET n == ParseInt(m)
    IN  IF n = ValueError \/ ~HasSession(w, p) THEN _retry_show_experts(w, p, f)
        ELSE IF w.us[p].experts = <<>> THEN _show_experts(w, p, f)
        ELSE IF InRange(n, w.us[p].experts)
        THEN IF ~_validate_state_transition(w.us[p].state, "date_selection")
             THEN _reset_user_state(w, p)
             ELSE _show_available_dates(
                    [w EXCEPT !.us[p].state = "date_selection",
                              !.us[p].selected_expert = w.us[p].experts[n]], p)
        ELSE _retry_show_experts(w, p, f)

_handle_date_selection_state(w, p, m, f) ==
    LET n == ParseInt(m)
    IN  IF n = ValueError THEN RetryOrGiveUp(w, p, "enter_valid_number")
        ELSE IF ~HasSession(w, p)
        THEN _reset_user_state(send_sms(w, p, Text("trouble_date_selection")), p)
        ELSE IF w.us[p].available_dates = <<>> THEN _show_available_dates(w, p)
        ELSE IF InRange(n, w.us[p].available_dates)
        THEN IF ~_validate_state_transition(w.us[p].state, "time_selection")
             THEN send_sms(_reset_user_state(w, p), p, Text("invalid_transition"))
             ELSE _show_available_times(
                    [w EXCEPT !.us[p].state = "time_selection",
                              !.us[p].selected_date = w.us[p].available_dates[n]], p, f)
        ELSE RetryOrGiveUp(w, p, "invalid_selection")

_show_confirmation(w, p) ==
    IF ~HasSession(w, p)
    THEN _reset_user_state(send_sms(w, p, Text("trouble_confirming")), p)
    ELSE LET selected_services == w.us[p].selected_services
         IN  IF selected_services = <<>>
             THEN _reset_user_state(send_sms(w, p, Text("no_services_selected")), p)
             ELSE IF Len(selected_services) < MaxCartItems
             THEN send_sms(w, p, List("confirm_prompt_with_add_more", selected_services))
             ELSE send_sms(w, p, List("confirm_prompt", selected_services))

\* mutant: a chosen slot replaces the cart by the one new item
_handle_time_selection_state_Overwrites(w, p, m, f) ==
    LET n == ParseInt(m)
        failed == _reset_user_state(send_sms(w, p, Text("trouble_time_selection")), p)
    IN  IF n = ValueError THEN RetryOrGiveUp(w, p, "enter_valid_number")
        ELSE IF ~HasSession(w, p) THEN failed
        ELSE IF w.us[p].available_time_slots = <<>> THEN _show_available_times(w, p, f)
        ELSE IF InRange(n, w.us[p].available_time_slots)
        THEN LET state == w.us[p]
                 current_service ==
                     [salon |-> state.selected_salon,
                      service |-> state.selected_service,
                      expert |-> state.selected_expert,
                      date |-> state.selected_date,
                      time_slot |-> state.available_time_slots[n]]
             IN  _show_confirmation(
                   [w EXCEPT !.us[p].state = "confirmation",
                             !.us[p].selected_services = <<current_service>>], p)
        ELSE RetryOrGiveUp(w, p, "invalid_selection")

_handle_time_selection_state(w, p, m, f) ==
    LET n == ParseInt(m)
        failed == _reset_user_state(send_sms(w, p, Text("trouble_time_selection")), p)
    IN  IF n = ValueError THEN RetryOrGiveUp(w, p, "enter_valid_number")
        ELSE IF ~HasSession(w, p) THEN failed
        ELSE IF w.us[p].available_time_slots = <<>> THEN _show_available_times(w, p, f)
        ELSE IF InRange(n, w.us[p].available_time_slots)
        THEN LET state == w.us[p]
                 current_service ==
                     [salon |-> state.selected_salon,
                      service |-> state.selected_service,
                      expert |-> state.selected_expert,
                      date |-> state.selected_date,
                      time_slot |-> state.available_time_slots[n]]
             IN  IF state.selected_salon = Absent \/ state.selected_service = Absent
                    \/ state.selected_expert = Absent \/ state.selected_date = NoDate
                 THEN failed
                 ELSE _show_confirmation(
                        [w EXCEPT !.us[p].state = "confirmation",
                                  !.us[p].selected_services = Append(@, current_service)],
                        p)
        ELSE RetryOrGiveUp(w, p, "invalid_selection")

----------------------------------------------------------------------------
(* Appointment creation and the commit of the cart *)

\* the appointment_date confirm builds: the item's day at the slot's start hour
CommitDate(item) ==
    [day |-> item.date, hour |-> HourOfLabel(item.time_slot.start_time)]

\* the AppointmentCreate that confirm builds from a cart item
AppointmentOf(item, user_id) ==
    [user_id |-> user_id, salon_id |-> item.salon, service_id |-> item.service,
     expert_id |-> item.expert, appointment_date |-> CommitDate(item),
     appointment_time |-> LabelOfHour(HourOfLabel(item.time_slot.start_time))]

SeqToSet(q) == {q[i] : i \in 1..Len(q)}

\* create_appointment raises: unknown user, salon, service or expert, a bucket
\* the weekly template closes, or an active appointment with the same expert,
\* appointment_date and appointment_time
CreateRefusedFor(appts, a) ==
    LET availability_index == HourOfLabel(a.appointment_time) - 9
        day_slots == WeeklyTemplate(a.expert_id, Weekday(a.appointment_date.day))
    IN  \/ a.salon_id \notin SeqToSet(AllSalons)
        \/ a.service_id \notin SeqToSet(SalonServices(a.salon_id))
        \/ a.expert_id \notin SeqToSet(SalonExperts(a.salon_id))
        \/ availability_index < 0
        \/ availability_index >= Len(day_slots)
        \/ ~day_slots[availability_index + 1]
        \/ FindAppointments(appts, a.expert_id, a.appointment_date,
                            a.appointment_time) # {}

CreateRefused(w, p, a) ==
    \/ a.user_id \notin {UserId(k) : k \in 1..w.users[p]}
    \/ CreateRefusedFor(w.appts, a)

\* the document create_appointment inserts
Inserted(a, p) ==
    [user |-> p, salon_id |-> a.salon_id, service_id |-> a.service_id,
     expert_id |-> a.expert_id, appointment_date |-> a.appointment_date,
     appointment_time |-> a.appointment_time, status |-> "pending"]

\* mutant: create_appointment returns without inserting
create_appointment_Nothing(w, p, a) == w

create_appointment(w, p, a) == [w EXCEPT !.appts = @ \cup {Inserted(a, p)}]

\* mutant: the loop goes on to the next item after a failure
RECURSIVE Commit_KeepsGoing(_, _, _, _, _)
Commit_KeepsGoing(w, p, items, k, f) ==
    IF k > Len(items) THEN [w |-> w, ok |-> TRUE, requested |-> k - 1]
    ELSE LET a == AppointmentOf(items[k], w.us[p].user_id)
         IN  IF w.us[p].user_id = Absent
             THEN [w |-> w, ok |-> FALSE, requested |-> k - 1]
             ELSE IF RaisesAt(f, "create_appointment", k) \/ CreateRefused(w, p, a)
             THEN [Commit_KeepsGoing(w, p, items, k + 1, f) EXCEPT !.ok = FALSE]
             ELSE IF RaisesAt(f, "salons.update_one", k)
             THEN [w |-> create_appointment(w, p, a), ok |-> FALSE, requested |-> k]
             ELSE Commit_KeepsGoing(create_appointment(w, p, a), p, items, k + 1, f)

\* the loop of confirm from item k on: the store it leaves, whether it ran through,
\* and how many creations it requested
RECURSIVE Commit(_, _, _, _, _)
Commit(w, p, items, k, f) ==
    IF k > Len(items) THEN [w |-> w, ok |-> TRUE, requested |-> k - 1]
    ELSE LET a == AppointmentOf(items[k], w.us[p].user_id)
         IN  IF w.us[p].user_id = Absent
             THEN [w |-> w, ok |-> FALSE, requested |-> k - 1]
             ELSE IF RaisesAt(f, "create_appointment", k) \/ CreateRefused(w, p, a)
             THEN [w |-> w, ok |-> FALSE, requested |-> k]
             ELSE IF RaisesAt(f, "salons.update_one", k)
             THEN [w |-> create_appointment(w, p, a), ok |-> FALSE, requested |-> k]
             ELSE Commit(create_appointment(w, p, a), p, items, k + 1, f)

\* message.lower().strip() on the texts of Inputs
LowerStrip(m) == Lower(m)

\* mutant: add more empties the cart
_handle_confirmation_state_ClearsCart(w, p, m, f) ==
    IF ~HasSession(w, p)
    THEN _reset_user_state(send_sms(w, p, Text("trouble_confirmation")), p)
    ELSE LET selected_services == w.us[p].selected_services
             done == Commit(w, p, selected_services, 1, f)
         IN  IF LowerStrip(m) = "confirm"
             THEN IF done.ok
                  THEN _reset_user_state(
                         send_sms(done.w, p, List("all_confirmed", selected_services)), p)
                  ELSE _reset_user_state(
                         send_sms(done.w, p, Text("error_creating_appointments")), p)
             ELSE IF LowerStrip(m) = "add more" /\ Len(selected_services) < MaxCartItems
             THEN _show_services([w EXCEPT !.us[p].state = "service_selection",
                                           !.us[p].selected_services = <<>>], p, f)
             ELSE IF LowerStrip(m) = "cancel"
             THEN send_sms(_reset_user_state(w, p), p, Text("cancelled"))
             ELSE IF _increment_retry(w, p)
             THEN send_sms(_reset_user_state(IncrementedRetry(w, p), p), p,
                           Text("too_many_attempts"))
             ELSE IF Len(selected_services) < MaxCartItems
             THEN send_sms(IncrementedRetry(w, p), p, Text("type_confirm_add_more_or_cancel"))
             ELSE send_sms(IncrementedRetry(w, p), p, Text("type_confirm_or_cancel"))

\* mutant: a successful confirm leaves the session in place
_handle_confirmation_state_KeepsSession(w, p, m, f) ==
    IF ~HasSession(w, p)
    THEN _reset_user_state(send_sms(w, p, Text("trouble_confirmation")), p)
    ELSE LET selected_services == w.us[p].selected_services
             done == Commit(w, p, selected_services, 1, f)
         IN  IF LowerStrip(m) = "confirm"
             THEN IF done.ok
                  THEN send_sms(done.w, p, List("all_confirmed", selected_services))
                  ELSE _reset_user_state(
                         send_sms(done.w, p, Text("error_creating_appointments")), p)
             ELSE IF LowerStrip(m) = "add more" /\ Len(selected_services) < MaxCartItems
             THEN _show_services([w EXCEPT !.us[p].state = "service_selection"], p, f)
             ELSE IF LowerStrip(m) = "cancel"
             THEN send_sms(_reset_user_state(w, p), p, Text("cancelled"))
             ELSE IF _increment_retry(w, p)
             THEN send_sms(_reset_user_state(IncrementedRetry(w, p), p), p,
                           Text("too_many_attempts"))
             ELSE IF Len(selected_services) < MaxCartItems
             THEN send_sms(IncrementedRetry(w, p), p, Text("type_confirm_add_more_or_cancel"))
             ELSE send_sms(IncrementedRetry(w, p), p, Text("type_confirm_or_cancel"))

\* mutant: add more goes back to the salon list, as the transition table has it
_handle_confirmation_state_ToSalons(w, p, m, f) ==
    IF ~HasSession(w, p)
    THEN _reset_user_state(send_sms(w, p, Text("trouble_confirmation")), p)
    ELSE LET selected_services == w.us[p].selected_services
             done == Commit(w, p, selected_services, 1, f)
         IN  IF LowerStrip(m) = "confirm"
             THEN IF done.ok
                  THEN _reset_user_state(
                         send_sms(done.w, p, List("all_confirmed", selected_services)), p)
                  ELSE _reset_user_state(
                         send_sms(done.w, p, Text("error_creating_appointments")), p)
             ELSE IF LowerStrip(m) = "add more" /\ Len(selected_services) < MaxCartItems
             THEN _show_salons([w EXCEPT !.us[p].state = "salon_selection"], p, f)
             ELSE IF LowerStrip(m) = "cancel"
             THEN send_sms(_reset_user_state(w, p), p, Text("cancelled"))
             ELSE IF _increment_retry(w, p)
             THEN send_sms(_reset_user_state(IncrementedRetry(w, p), p), p,
                           Text("too_many_attempts"))
             ELSE IF Len(selected_services) < MaxCartItems
             THEN send_sms(IncrementedRetry(w, p), p, Text("type_confirm_add_more_or_cancel"))
             ELSE send_sms(IncrementedRetry(w, p), p, Text("type_confirm_or_cancel"))

_handle_confirmation_state(w, p, m, f) ==
    IF ~HasSession(w, p)
    THEN _reset_user_state(send_sms(w, p, Text("trouble_confirmation")), p)
    ELSE LET selected_services == w.us[p].selected_services
             done == Commit(w, p, selected_services, 1, f)
         IN  IF LowerStrip(m) = "confirm"
             THEN IF done.ok
                  THEN _reset_user_state(
                         send_sms(done.w, p, List("all_confirmed", selected_services)), p)
                  ELSE _reset_user_state(
                         send_sms(done.w, p, Text("error_creating_appointments")), p)
             ELSE IF LowerStrip(m) = "add more" /\ Len(selected_services) < MaxCartItems
             THEN _show_services([w EXCEPT !.us[p].state = "service_selection"], p, f)
             ELSE IF LowerStrip(m) = "cancel"
             THEN send_sms(_reset_user_state(w, p), p, Text("cancelled"))
             ELSE IF _increment_retry(w, p)
             THEN send_sms(_reset_user_state(IncrementedRetry(w, p), p), p,
                           Text("too_many_attempts"))
             ELSE IF Len(selected_services) < MaxCartItems
             THEN send_sms(IncrementedRetry(w, p), p, Text("type_confirm_add_more_or_cancel"))
             ELSE send_sms(IncrementedRetry(w, p), p, Text("type_confirm_or_cancel"))

----------------------------------------------------------------------------
(* Registration *)

\* mutant: a session that has not stored a step yet is at the password step
RegistrationStep_StartsAtPassword(session) ==
    IF session.registration_step = Absent THEN "password" ELSE session.registration_step

RegistrationStep(session) ==
    IF session.registration_step = Absent THEN "name" ELSE session.registration_step

\* mutant: the text is stored as it came
Strip_Nothing(m) == m

\* message.strip() on the texts of Inputs
Strip(m) == CASE m = " Jane " -> "Jane"
              [] OTHER -> m

\* mutant: a short password counts as an invalid attempt
_handle_registration_state_CountsShort(w, p, m, t, f) ==
    LET step == IF HasSession(w, p) THEN RegistrationStep(w.us[p]) ELSE "name"
        escaped == _reset_user_state(send_sms(w, p, Text("error_processing")), p)
    IN  IF step = "name"
        THEN IF ~HasSession(w, p) THEN escaped
             ELSE send_sms([w EXCEPT !.us[p].registration_step = "email",
                                     !.us[p].registration_data.name = Strip(m)],
                           p, Text("enter_email"))
        ELSE IF step = "email"
        THEN send_sms([w EXCEPT !.us[p].registration_step = "address",
                                !.us[p].registration_data.email = Strip(m)],
                      p, Text("enter_address"))
        ELSE IF step = "address"
        THEN send_sms([w EXCEPT !.us[p].registration_step = "password",
                                !.us[p].registration_data.address = Strip(m)],
                      p, Text("enter_password"))
        ELSE IF step = "password"
        THEN IF StripLen(m) < MinPasswordLen
             THEN RetryOrGiveUp(w, p, "password_too_short")
             ELSE IF ~IsEmail(w.us[p].registration_data.email)
                     \/ Raises(f, "create_user")
             THEN _reset_user_state(send_sms(w, p, Text("registration_failed")), p)
             ELSE LET created == create_user(w, p)
                      new_user == UserId(created.users[p])
                  IN  _show_salons(
                        send_sms([created EXCEPT !.us[p] =
                                     NewSession("salon_selection", new_user, t)],
                                 p, List("registration_successful",
                                         <<w.us[p].registration_data.name>>)),
                        p, f)
        ELSE send_sms(_reset_user_state(w, p), p, Text("something_wrong"))

_handle_registration_state(w, p, m, t, f) ==
    LET step == IF HasSession(w, p) THEN RegistrationStep(w.us[p]) ELSE "name"
        escaped == _reset_user_state(send_sms(w, p, Text("error_processing")), p)
    IN  IF step = "name"
        THEN IF ~HasSession(w, p) THEN escaped
             ELSE send_sms([w EXCEPT !.us[p].registration_step = "email",
                                     !.us[p].registration_data.name = Strip(m)],
                           p, Text("enter_email"))
        ELSE IF step = "email"
        THEN send_sms([w EXCEPT !.us[p].registration_step = "address",
                                !.us[p].registration_data.email = Strip(m)],
                      p, Text("enter_address"))
        ELSE IF step = "address"
        THEN send_sms([w EXCEPT !.us[p].registration_step = "password",
                                !.us[p].registration_data.address = Strip(m)],
                      p, Text("enter_password"))
        ELSE IF step = "password"
        THEN IF StripLen(m) < MinPasswordLen
             THEN send_sms(w, p, Text("password_too_short"))
             ELSE IF ~IsEmail(w.us[p].registration_data.email)
                     \/ Raises(f, "create_user")
             THEN _reset_user_state(send_sms(w, p, Text("registration_failed")), p)
             ELSE LET created == create_user(w, p)
                      new_user == UserId(created.users[p])
                  IN  _show_salons(
                        send_sms([created EXCEPT !.us[p] =
                                     NewSession("salon_selection", new_user, t)],
                                 p, List("registration_successful",
                                         <<w.us[p].registration_data.name>>)),
                        p, f)
        ELSE send_sms(_reset_user_state(w, p), p, Text("something_wrong"))

----------------------------------------------------------------------------
(* handle_incoming_message *)

\* mutant: a text that is neither LOGIN nor REGISTER counts as an invalid attempt
HandleWelcome_CountsOther(w, p, m, f) ==
    IF Upper(m) = "LOGIN"
    THEN IF Raises(f, "get_user_by_phone")
         THEN _reset_user_state(send_sms(w, p, Text("error_login")), p)
         ELSE IF get_user_by_phone(w, p) = Absent
         THEN send_registration_prompt([w EXCEPT !.us[p].state = "registration"], p)
         ELSE _show_salons([w EXCEPT !.us[p].state = "salon_selection",
                                     !.us[p].user_id = get_user_by_phone(w, p)], p, f)
    ELSE IF Upper(m) = "REGISTER"
    THEN send_registration_prompt([w EXCEPT !.us[p].state = "registration"], p)
    ELSE send_welcome_message(IncrementedRetry(w, p), p)

\* the branch taken when the session is in state welcome
HandleWelcome(w, p, m, f) ==
    IF Upper(m) = "LOGIN"
    THEN IF Raises(f, "get_user_by_phone")
         THEN _reset_user_state(send_sms(w, p, Text("error_login")), p)
         ELSE IF get_user_by_phone(w, p) = Absent
         THEN send_registration_prompt([w EXCEPT !.us[p].state = "registration"], p)
         ELSE _show_salons([w EXCEPT !.us[p].state = "salon_selection",
                                     !.us[p].user_id = get_user_by_phone(w, p)], p, f)
    ELSE IF Upper(m) = "REGISTER"
    THEN send_registration_prompt([w EXCEPT !.us[p].state = "registration"], p)
    ELSE send_welcome_message(w, p)

\* the dispatch on the state of the session
Dispatch(w, p, m, t, f) ==
    LET state == w.us[p].state
    IN  CASE state = "welcome" -> HandleWelcome(w, p, m, f)
          [] state = "registration" -> _handle_registration_state(w, p, m, t, f)
          [] state = "salon_selection" -> _handle_salon_selection_state(w, p, m, f)
          [] state = "service_selection" -> _handle_service_selection_state(w, p, m, f)
          [] state = "expert_selection" -> _handle_expert_selection_state(w, p, m, f)
          [] state = "date_selection" -> _handle_date_selection_state(w, p, m, f)
          [] state = "time_selection" -> _handle_time_selection_state(w, p, m, f)
          [] state = "confirmation" -> _handle_confirmation_state(w, p, m, f)
          [] OTHER -> send_welcome_message(_reset_user_state(w, p), p)

\* mutant: a session idle for exactly the limit counts as timed out
TimedOut_AtLimit(session, t) == t - session.last_message_time >= TimeoutMinutes

TimedOut(session, t) == t - session.last_message_time > TimeoutMinutes

\* mutant: the text of a first contact is dispatched to the new welcome session
handle_incoming_message_DispatchesFirst(w, p, m, t, f) ==
    IF Lower(m) \in Greetings
    THEN LET user == IF Raises(f, "get_user_by_phone") THEN Absent
                     ELSE get_user_by_phone(w, p)
         IN  send_welcome_message(
               [_reset_user_state(w, p) EXCEPT !.us[p] = NewSession("welcome", user, t)], p)
    ELSE IF Lower(m) = "cancel"
    THEN send_sms(_reset_user_state(w, p), p, Text("cancelled"))
    ELSE IF ~HasSession(w, p)
    THEN Dispatch([w EXCEPT !.us[p] = NewSession("welcome", Absent, t)], p, m, t, f)
    ELSE IF TimedOut(w.us[p], t)
    THEN send_welcome_message(
           [_reset_user_state(w, p) EXCEPT !.us[p] = NewSession("welcome", Absent, t)], p)
    ELSE Dispatch([w EXCEPT !.us[p].last_message_time = t], p, m, t, f)

\* mutant: the dispatch leaves last_message_time as it was
handle_incoming_message_KeepsTime(w, p, m, t, f) ==
    IF Lower(m) \in Greetings
    THEN LET user == IF Raises(f, "get_user_by_phone") THEN Absent
                     ELSE get_user_by_phone(w, p)
         IN  send_welcome_message(
               [_reset_user_state(w, p) EXCEPT !.us[p] = NewSession("welcome", user, t)], p)
    ELSE IF Lower(m) = "cancel"
    THEN send_sms(_reset_user_state(w, p), p, Text("cancelled"))
    ELSE IF ~HasSession(w, p)
    THEN send_welcome_message([w EXCEPT !.us[p] = NewSession("welcome", Absent, t)], p)
    ELSE IF TimedOut(w.us[p], t)
    THEN send_welcome_message(
           [_reset_user_state(w, p) EXCEPT !.us[p] = NewSession("welcome", Absent, t)], p)
    ELSE Dispatch(w, p, m, t, f)

handle_incoming_message(w, p, m, t, f) ==
    IF Lower(m) \in Greetings
    THEN LET user == IF Raises(f, "get_user_by_phone") THEN Absent
                     ELSE get_user_by_phone(w, p)
         IN  send_welcome_message(
               [_reset_user_state(w, p) EXCEPT !.us[p] = NewSession("welcome", user, t)], p)
    ELSE IF Lower(m) = "cancel"
    THEN send_sms(_reset_user_state(w, p), p, Text("cancelled"))
    ELSE IF ~HasSession(w, p)
    THEN send_welcome_message([w EXCEPT !.us[p] = NewSession("welcome", Absent, t)], p)
    ELSE IF TimedOut(w.us[p], t)
    THEN send_welcome_message(
           [_reset_user_state(w, p) EXCEPT !.us[p] = NewSession("welcome", Absent, t)], p)
    ELSE Dispatch([w EXCEPT !.us[p].last_message_time = t], p, m, t, f)

----------------------------------------------------------------------------
(* The engine handling one message at a time *)

\* the collaborator calls the handling of m in `state` can reach
CallsIn(state, m) ==
    CASE Lower(m) \in Greetings -> {"get_user_by_phone"}
      [] Lower(m) = "cancel" -> {}
      [] state = "welcome" /\ Upper(m) = "LOGIN" -> {"get_user_by_phone", "get_all_salons"}
      [] state = "registration" -> {"create_user", "get_all_salons"}
      [] state = "salon_selection" /\ ParseInt(m) # ValueError ->
             {"get_salon_services", "get_service"}
      [] state = "service_selection" /\ ParseInt(m) # ValueError ->
             {"get_salon_services", "get_salon_experts", "get_service"}
      [] state = "service_selection" -> {"get_salon_services", "get_service"}
      [] state = "expert_selection" -> {"get_salon_experts"}
      [] state = "date_selection" /\ ParseInt(m) # ValueError ->
             {"get_expert_availability", "appointments.find", "get_salon_experts"}
      [] state = "confirmation" /\ LowerStrip(m) = "confirm" ->
             {"create_appointment", "salons.update_one"}
      [] state = "confirmation" /\ LowerStrip(m) = "add more" ->
             {"get_salon_services", "get_service"}
      [] OTHER -> {}

MaxFaultIndex == 3      \* a fault hits one of the first MaxFaultIndex calls of a loop

\* the calls made once per element of a list
LoopedCalls == {"create_appointment", "salons.update_one", "get_service"}

Faults(state, m) ==
    {NoFault}
    \cup {Fault(c, 1) : c \in CallsIn(state, m)}
    \cup {Fault(c, k) : c \in CallsIn(state, m) \cap LoopedCalls, k \in 2..MaxFaultIndex}

\* the texts a recipient sends: the global commands everywhere, and in each state
\* its own commands, a free text and numbers in and out of range
Inputs(state) ==
    {"Hello", "cancel"} \cup
    CASE state = "no_session" -> {"LOGIN", "1", "confirm"}
      [] state = "welcome" -> {"LOGIN", "REGISTER", "abc"}
      [] state = "registration" -> {" Jane ", "jane@x.com"}
      [] state = "salon_selection" -> {"abc", "1", "2", "3", "9"}
      [] state = "confirmation" -> {"confirm", "add more", "abc"}
      [] OTHER -> {"abc", "1", "2", "9"}

\* the selection states and the option list each validates a number against
SelectionStates == {"salon_selection", "service_selection", "expert_selection",
                    "date_selection", "time_selection"}

OptionsShown(session) ==
    CASE session.state = "salon_selection" -> session.salons
      [] session.state = "service_selection" -> session.services
      [] session.state = "expert_selection" -> session.experts
      [] session.state = "date_selection" -> session.available_dates
      [] session.state = "time_selection" -> session.available_time_slots
      [] OTHER -> <<>>

\* minutes since the session last heard from its recipient
Idle(session, t) == IF session = NoSession THEN 0 ELSE t - session.last_message_time

\* m is a command handled before any state handler runs
IsCommand(m) == Lower(m) \in Greetings \cup {"cancel"}

\* what a message is to the dispatcher and the confirmation handler
Kind(m) ==
    CASE Lower(m) \in Greetings -> "greeting"
      [] Lower(m) = "cancel" -> "cancel"
      [] m = "confirm" -> "confirm"
      [] m = "add more" -> "add more"
      [] OTHER -> "other"

\* m reaches a selection handler and is unparseable or out of range there
InvalidSelection(session, m, t) ==
    /\ session.state \in SelectionStates
    /\ ~IsCommand(m)
    /\ Idle(session, t) <= TimeoutMinutes
    /\ \/ ParseInt(m) = ValueError
       \/ OptionsShown(session) # <<>> /\ ~InRange(ParseInt(m), OptionsShown(session))

\* m is confirm or add more and reaches the confirmation handler
CartCommand(session, m, t) ==
    /\ session.state = "confirmation"
    /\ m \in {"confirm", "add more"}
    /\ Idle(session, t) <= TimeoutMinutes

\* m reaches the password step of the registration handler
PasswordEntry(session, m, t) ==
    /\ session.state = "registration"
    /\ RegistrationStep(session) = "password"
    /\ ~IsCommand(m)
    /\ Idle(session, t) <= TimeoutMinutes

NoLast == [phone |-> "none", kind |-> "none", pre |-> "none",
           streak |-> 0, fault |-> NoFault,
           pre_cart |-> <<>>, pre_appts |-> {}, password |-> "none",
           repeat |-> FALSE]

\* what `last` records of the message being handled: its kind, the state it met,
\* how many invalid selections in a row it completes in that state, the fault if
\* one changed the outcome (the stores the step leaves are not those it leaves
\* when every call returns), for confirm and add more the cart and the
\* appointment store it met, for a password whether it is shorter than the
\* minimum, and whether it is a confirm that follows the confirm of a cart
Handled(p, m, f) ==
    LET session == user_states[p]
        w == [World EXCEPT !.sent[p] = <<>>]
    IN  [phone |-> p, kind |-> Kind(m),
         pre |-> session.state,
         streak |-> IF InvalidSelection(session, m, now)
                    THEN IF last.phone = p /\ last.pre = session.state
                            /\ last.streak > 0
                         THEN Min(last.streak + 1, MaxRetries)
                         ELSE 1
                    ELSE 0,
         fault |-> IF f = NoFault THEN NoFault
                   ELSE IF handle_incoming_message(w, p, m, now, NoFault) = World'
                   THEN NoFault ELSE f,
         pre_cart |-> IF CartCommand(session, m, now)
                      THEN session.selected_services ELSE <<>>,
         pre_appts |-> IF CartCommand(session, m, now) /\ m = "confirm"
                       THEN appointments ELSE {},
         password |-> IF ~PasswordEntry(session, m, now) THEN "none"
                      ELSE IF StripLen(m) < MinPasswordLen THEN "short" ELSE "long",
         repeat |-> /\ Kind(m) = "confirm"
                    /\ last.phone = p /\ last.kind = "confirm"
                    /\ last.pre = "confirmation"]

Apply(w) ==
    /\ user_states' = w.us
    /\ retry_counts' = w.rc
    /\ appointments' = w.appts
    /\ users' = w.users
    /\ sent' = w.sent

Receive(p, m, f) ==
    \E w \in {handle_incoming_message([World EXCEPT !.sent[p] = <<>>], p, m, now, f)} :
        /\ Apply(w)
        /\ last' = Handled(p, m, f)
        /\ UNCHANGED <<now, inflight, serial>>

Tick(d) ==
    /\ now + d <= MaxNow
    /\ now' = now + d
    /\ UNCHANGED <<user_states, retry_counts, appointments, users, sent, last,
                   inflight, serial>>

\* a handler slot with no coroutine in it
NotRunning == [pc |-> "idle", phone |-> "none", msg |-> "none", name |-> "none",
               expert |-> Absent, day |-> NoDate, k |-> 0,
               stale |-> FALSE, hung |-> FALSE]

Init ==
    /\ user_states = [p \in Phones |-> NoSession]
    /\ retry_counts = [p \in Phones |-> 0]
    /\ appointments = {}
    /\ users \in [Phones -> {0, 1}]
    /\ \A p \in Phones \ SeqPhones : users[p] = 0
    /\ now = 0
    /\ sent = [p \in Phones |-> <<>>]
    /\ last = NoLast
    /\ inflight = [h \in Handlers |-> NotRunning]
    /\ serial = World

Next ==
    \/ \E p \in SeqPhones :
         \E m \in Inputs(user_states[p].state) :
           \E f \in Faults(user_states[p].state, m) : Receive(p, m, f)
    \/ \E d \in {TimeoutMinutes, TimeoutMinutes + 1} : Tick(d)

Spec == Init /\ [][Next]_vars

----------------------------------------------------------------------------
(* The engine with handlers suspended in collaborator calls.  The webhook  *)
(* starts one coroutine per request and nothing orders the coroutines of   *)
(* one phone: a coroutine runs until it awaits a database call, and any    *)
(* other coroutine may run before that call returns.  The greeting and the *)
(* LOGIN branch and the creation of the user at the end of registration    *)
(* are split at their awaits; the handlers of the other states take their  *)
(* calls within one step, which is one of the schedules.  A send is a      *)
(* synchronous request made inside the coroutine: while it is out the      *)
(* event loop runs nothing else.  The sends of cancel, of a first contact  *)
(* and of a timed-out session are steps of their own; the other sends are  *)
(* taken within the step that reaches them.                                *)

\* the texts that arrive while handlers are suspended
ConcInputs == {"hi", "cancel", "LOGIN", "jane@x.com"}

\* m picks a date of the list and the date handler goes on to list the times
ListsTimes(session, m) ==
    /\ session.state = "date_selection"
    /\ ParseInt(m) # ValueError
    /\ InRange(ParseInt(m), session.available_dates)
    /\ session.selected_salon # Absent
    /\ session.selected_expert # Absent

\* handle_incoming_message from its entry to its first await, or to its return
Started(w, p, m, t) ==
    IF Lower(m) \in Greetings
    THEN [w |-> _reset_user_state(w, p), pc |-> "greeting_lookup"]
    ELSE IF Lower(m) = "cancel"
    THEN [w |-> _reset_user_state(w, p), pc |-> "send_cancelled"]
    ELSE IF ~HasSession(w, p) \/ TimedOut(w.us[p], t)
    THEN [w |-> [_reset_user_state(w, p) EXCEPT
                    !.us[p] = NewSession("welcome", Absent, t)],
          pc |-> "send_welcome"]
    ELSE IF w.us[p].state = "welcome" /\ Upper(m) = "LOGIN"
    THEN [w |-> [w EXCEPT !.us[p].last_message_time = t], pc |-> "login_lookup"]
    ELSE IF /\ w.us[p].state = "registration"
            /\ RegistrationStep(w.us[p]) = "password"
            /\ StripLen(m) >= MinPasswordLen
            /\ IsEmail(w.us[p].registration_data.email)
    THEN [w |-> [w EXCEPT !.us[p].last_message_time = t,
                          !.us[p].registration_data.password = Strip(m)],
          pc |-> "create_user"]
    ELSE IF ListsTimes(w.us[p], m)
    THEN [w |-> [w EXCEPT !.us[p].last_message_time = t,
                          !.us[p].state = "time_selection",
                          !.us[p].selected_date =
                              w.us[p].available_dates[ParseInt(m)]],
          pc |-> "get_expert_availability"]
    ELSE [w |-> handle_incoming_message(w, p, m, t, NoFault), pc |-> "idle"]

\* the name of the local `user` that a coroutine suspended in create_user built
\* before the call
UserName(w, p, pc) ==
    IF pc = "create_user" THEN w.us[p].registration_data.name ELSE "none"

\* the locals expert_id and selected_date of a coroutine suspended in
\* get_expert_availability
ExpertId(w, p, pc) ==
    IF pc = "get_expert_availability" THEN w.us[p].selected_expert ELSE Absent

SelectedDate(w, p, pc) ==
    IF pc = "get_expert_availability" THEN w.us[p].selected_date ELSE NoDate

\* _show_available_times after get_expert_availability returns, with the locals
\* expert_id and selected_date read before the call; `state`, the session dict
\* read before the call, is detached when the session has been removed since:
\* what is written through it is lost, and what is written through
\* self.user_states[phone_number] lands in the session stored now
TimesListed(w, p, expert_id, day, detached) ==
    LET slots_for_day == WeeklyTemplate(expert_id, Weekday(day))
        available_slots == OpenSlots(w.appts, expert_id, day, slots_for_day, 1)
        told(tag) == send_sms(w, p, Text(tag))
        back(tag, st) == IF detached \/ ~HasSession(w, p) THEN told(tag)
                         ELSE [told(tag) EXCEPT !.us[p].state = st]
    IN  IF ~ExpertIsAvailable(expert_id)
        THEN _show_experts(back("expert_not_available", "expert_selection"), p, NoFault)
        ELSE IF ~AnyTrue(slots_for_day) \/ available_slots = <<>>
        THEN _show_available_dates(back("no_slots", "date_selection"), p)
        ELSE IF ~HasSession(w, p)
        THEN _reset_user_state(told("something_wrong"), p)
        ELSE send_sms([w EXCEPT !.us[p].available_time_slots = available_slots,
                                !.us[p].state = "time_selection"], p,
                      List("time_list", Numbered(available_slots)))

\* a suspended coroutine c from the return of its call to its next await, or to
\* its return; a session key that is gone raises KeyError into the branch's except
Resumed(w, c, t) ==
  LET p == c.phone
      pc == c.pc
      name == c.name
  IN
    CASE pc = "greeting_lookup" ->
           [w |-> send_welcome_message(
                    [w EXCEPT !.us[p] = NewSession("welcome", get_user_by_phone(w, p), t)],
                    p),
            pc |-> "idle"]
      [] pc = "login_lookup" ->
           IF ~HasSession(w, p)
           THEN [w |-> _reset_user_state(send_sms(w, p, Text("error_login")), p),
                 pc |-> "idle"]
           ELSE IF get_user_by_phone(w, p) = Absent
           THEN [w |-> send_registration_prompt(
                         [w EXCEPT !.us[p].state = "registration"], p),
                 pc |-> "idle"]
           ELSE [w |-> [w EXCEPT !.us[p].state = "salon_selection",
                                 !.us[p].user_id = get_user_by_phone(w, p)],
                 pc |-> "show_salons"]
      [] pc = "send_cancelled" ->
           [w |-> send_sms(w, p, Text("cancelled")), pc |-> "idle"]
      [] pc = "send_welcome" ->
           [w |-> send_welcome_message(w, p), pc |-> "idle"]
      [] pc = "create_user" ->
           LET created == create_user(w, p)
           IN  [w |-> send_sms(
                        [created EXCEPT !.us[p] =
                            NewSession("salon_selection", UserId(created.users[p]), t)],
                        p, List("registration_successful", <<name>>)),
                pc |-> "show_salons"]
      [] pc = "get_expert_availability" ->
           [w |-> TimesListed(w, p, c.expert, c.day, c.stale), pc |-> "idle"]
      [] OTHER -> [w |-> _show_salons(w, p, NoFault), pc |-> "idle"]

\* a suspended coroutine c after a step that left the stores as w: the session
\* of its phone has been destroyed under it if that step removed the session
Outlived(c, w) ==
    IF /\ c # NotRunning
       /\ user_states[c.phone] # NoSession
       /\ w.us[c.phone] = NoSession
    THEN [c EXCEPT !.stale = TRUE]
    ELSE c

\* the coroutine is inside the request of a send
InSend(c) == c.pc \in {"send_cancelled", "send_welcome"}

\* the event loop can run coroutine h: no other coroutine is inside a send
CanRun(h) == \A g \in Handlers : InSend(inflight[g]) => g = h

Arrive(h, p, m) ==
    /\ inflight[h] = NotRunning
    /\ CanRun(h)
    /\ LET s == Started([World EXCEPT !.sent[p] = <<>>], p, m, now)
       IN  /\ Apply(s.w)
           /\ inflight' = [g \in Handlers |->
                             IF g # h THEN Outlived(inflight[g], s.w)
                             ELSE IF s.pc = "idle" THEN NotRunning
                             ELSE [NotRunning EXCEPT !.pc = s.pc, !.phone = p,
                                                     !.msg = m,
                                                     !.name = UserName(s.w, p, s.pc),
                                                     !.expert = ExpertId(s.w, p, s.pc),
                                                     !.day = SelectedDate(s.w, p, s.pc)]]
    /\ serial' = handle_incoming_message([serial EXCEPT !.sent[p] = <<>>],
                                         p, m, now, NoFault)
    /\ last' = [NoLast EXCEPT !.phone = p]
    /\ UNCHANGED now

Resume(h) ==
    /\ inflight[h] # NotRunning
    /\ ~inflight[h].hung
    /\ CanRun(h)
    /\ LET r == Resumed(World, inflight[h], now)
       IN  /\ Apply(r.w)
           /\ inflight' = [g \in Handlers |->
                             IF g # h THEN Outlived(inflight[g], r.w)
                             ELSE IF r.pc = "idle" THEN NotRunning
                             ELSE [inflight[h] EXCEPT !.pc = r.pc]]
    /\ last' = [NoLast EXCEPT !.phone = inflight[h].phone]
    /\ UNCHANGED <<now, serial>>

NextConc ==
    \/ \E h \in Handlers : \E p \in SeqPhones : \E m \in ConcInputs : Arrive(h, p, m)
    \/ \E h \in Handlers : Resume(h)

SpecConc == Init /\ [][NextConc]_vars

\* the messages of two recipients interleaved
PairInputs == {"hi", "cancel", "LOGIN"}

NextPair ==
    \/ \E h \in Handlers : \E p \in Phones : \E m \in PairInputs : Arrive(h, p, m)
    \/ \E h \in Handlers : Resume(h)

SpecPair == Init /\ [][NextPair]_vars

\* a known user logs in and registers at the same time
RegisterInputs == {"LOGIN", "REGISTER", "jane@x.com"}

NextRegister ==
    \/ \E h \in Handlers : \E p \in SeqPhones : \E m \in RegisterInputs : Arrive(h, p, m)
    \/ \E h \in Handlers : Resume(h)

SpecRegister == Init /\ [][NextRegister]_vars

\* a recipient who books, cancels and writes again while the times are listed
TimesInputs == {"LOGIN", "1", "cancel"}

NextTimes ==
    \/ \E h \in Handlers : \E p \in SeqPhones : \E m \in TimesInputs : Arrive(h, p, m)
    \/ \E h \in Handlers : Resume(h)

SpecTimes == Init /\ [][NextTimes]_vars

----------------------------------------------------------------------------
(* The commit of two recipients interleaved.  create_appointment awaits the *)
(* conflict query (find_one) and then the insert (insert_one): the event    *)
(* loop can run another coroutine between the two.                          *)

MaxCommitCart == 2      \* items in the carts the two recipients confirm

\* the slots listed for expert E1 on day 1 while the store holds no appointment
CommitSlots == OpenSlots({}, "E1", 1, WeeklyTemplate("E1", Weekday(1)), 1)

\* the items the time step appends for salon S1, service V1, expert E1, day 1
CommitItems ==
    {[salon |-> "S1", service |-> "V1", expert |-> "E1", date |-> 1,
      time_slot |-> CommitSlots[n]] : n \in 1..Len(CommitSlots)}

CommitCarts == UNION {[1..n -> CommitItems] : n \in 1..MaxCommitCart}

\* the session of a known user who has filled the cart and reads the summary
ConfirmingSession(cart) ==
    [NewSession("confirmation", UserId(1), 0) EXCEPT
        !.salons = AllSalons, !.selected_salon = "S1",
        !.services = SalonServices("S1"), !.selected_service = "V1",
        !.experts = SalonExperts("S1"), !.selected_expert = "E1",
        !.available_dates = NextDays, !.selected_date = 1,
        !.available_time_slots = CommitSlots,
        !.selected_services = cart]

InitCommit ==
    /\ user_states \in [Phones -> {ConfirmingSession(cart) : cart \in CommitCarts}]
    /\ retry_counts = [p \in Phones |-> 0]
    /\ appointments = {}
    /\ users = [p \in Phones |-> 1]
    /\ now = 0
    /\ sent = [p \in Phones |-> <<>>]
    /\ last = NoLast
    /\ inflight = [h \in Handlers |-> NotRunning]
    /\ serial = World

\* the except branch of confirm: the error text, and the session destroyed
CommitFailed(w, p) ==
    _reset_user_state(send_sms(w, p, Text("error_creating_appointments")), p)

\* the coroutine of p's confirm from the top of its loop at item k: it suspends
\* in the conflict query of that item, or has run through the cart
CommitFrom(w, p, k) ==
    IF ~HasSession(w, p) THEN [w |-> CommitFailed(w, p), pc |-> "idle", k |-> 0]
    ELSE IF k > Len(w.us[p].selected_services)
    THEN [w |-> _reset_user_state(
                  send_sms(w, p, List("all_confirmed", w.us[p].selected_services)), p),
          pc |-> "idle", k |-> 0]
    ELSE [w |-> w, pc |-> "find_conflict", k |-> k]

\* `confirm` from p, whose session reads the summary: _handle_confirmation_state
\* up to the conflict query of the first item
Confirm(h, p) ==
    /\ inflight[h] = NotRunning
    /\ \A g \in Handlers : inflight[g].phone # p
    /\ HasSession(World, p)
    /\ user_states[p].state = "confirmation"
    /\ LET s == CommitFrom([World EXCEPT !.sent[p] = <<>>,
                                         !.us[p].last_message_time = now], p, 1)
       IN  /\ Apply(s.w)
           /\ inflight' = [inflight EXCEPT ![h] =
                             IF s.pc = "idle" THEN NotRunning
                             ELSE [NotRunning EXCEPT !.pc = s.pc, !.phone = p,
                                                     !.msg = "confirm", !.k = s.k]]
    /\ last' = [NoLast EXCEPT !.phone = p]
    /\ UNCHANGED <<now, serial>>

\* the conflict query of item k returns: create_appointment raises when the
\* store held an active appointment of the slot, and goes on to the insert
\* otherwise
FindConflict(h) ==
    /\ inflight[h].pc = "find_conflict"
    /\ LET p == inflight[h].phone
           a == AppointmentOf(user_states[p].selected_services[inflight[h].k],
                              user_states[p].user_id)
       IN  IF CreateRefused(World, p, a)
           THEN /\ Apply(CommitFailed(World, p))
                /\ inflight' = [inflight EXCEPT ![h] = NotRunning]
           ELSE /\ inflight' = [inflight EXCEPT ![h].pc = "insert_one"]
                /\ UNCHANGED <<user_states, retry_counts, appointments, users, sent>>
    /\ last' = [NoLast EXCEPT !.phone = inflight[h].phone]
    /\ UNCHANGED <<now, serial>>

\* the insert of item k returns, and the loop goes on to the next item
InsertOne(h) ==
    /\ inflight[h].pc = "insert_one"
    /\ LET p == inflight[h].phone
           a == AppointmentOf(user_states[p].selected_services[inflight[h].k],
                              user_states[p].user_id)
           s == CommitFrom(create_appointment(World, p, a), p, inflight[h].k + 1)
       IN  /\ Apply(s.w)
           /\ inflight' = [inflight EXCEPT ![h] =
                             IF s.pc = "idle" THEN NotRunning
                             ELSE [inflight[h] EXCEPT !.pc = s.pc, !.k = s.k]]
    /\ last' = [NoLast EXCEPT !.phone = inflight[h].phone]
    /\ UNCHANGED <<now, serial>>

NextCommit ==
    \/ \E h \in Handlers : \E p \in Phones : Confirm(h, p)
    \/ \E h \in Handlers : FindConflict(h)
    \/ \E h \in Handlers : InsertOne(h)

SpecCommit == InitCommit /\ [][NextCommit]_vars

\* the request of a send never returns: the Twilio client is built and called
\* with no timeout and nothing around the send abandons it, so the coroutine
\* stays inside it.  (A database call that gets no answer raises after the
\* driver's socketTimeoutMS and resumes the coroutine like any other return.)
Hang(h) ==
    /\ InSend(inflight[h])
    /\ ~inflight[h].hung
    /\ inflight' = [inflight EXCEPT ![h].hung = TRUE]
    /\ UNCHANGED <<user_states, retry_counts, appointments, users, now, sent, last,
                   serial>>

NextLive ==
    \/ NextConc
    \/ \E h \in Handlers : Hang(h)

\* the event loop runs its ready coroutines first in, first out: a coroutine
\* whose call has returned or raised is resumed, however often the sends of
\* other coroutines hold the loop in between
SpecLive ==
    /\ Init
    /\ [][NextLive]_vars
    /\ \A h \in Handlers : SF_vars(Resume(h))

----------------------------------------------------------------------------
(* The recipient who follows the prompts.  Every call returns, and the     *)
(* recipient picks options whose next list is not empty.                   *)

\* the numbers of the options a selection state has listed
Listed(session) ==
    {m \in {"1", "2", "3"} : InRange(ParseInt(m), OptionsShown(session))}

\* the answers that the prompt of the session's state asks for: the command of
\* the welcome prompt, the text of the registration step (an address that
\* create_user accepts, a password of 8 characters), the number of a listed
\* option that has options itself (salon S1, expert E1), confirm or add more
ValidInputs(session) ==
    CASE session.state = "no_session" -> {"LOGIN"}
      [] session.state = "welcome" -> {"LOGIN", "REGISTER"}
      [] session.state = "registration" ->
           IF RegistrationStep(session) \in {"email", "password"}
           THEN {"jane@x.com"} ELSE {" Jane "}
      [] session.state = "time_selection" /\ Listed(session) # {} -> Listed(session)
      [] session.state = "confirmation" ->
           IF Len(session.selected_services) < MaxCartItems
           THEN {"confirm", "add more"} ELSE {"confirm"}
      [] OTHER -> {"1"}

\* what else a recipient sends: a greeting, cancel
OtherInputs == {"Hello", "cancel"}

\* the recipient answers the prompt, and the handler runs to its end
Answer(p) == \E m \in ValidInputs(user_states[p]) : Receive(p, m, NoFault)

Digress(p) == \E m \in OtherInputs : Receive(p, m, NoFault)

NextAnswer ==
    \/ \E p \in SeqPhones : Answer(p)
    \/ \E p \in SeqPhones : Digress(p)

\* the recipient goes on answering: a prompt is not left unanswered for ever
SpecAnswer ==
    /\ Init
    /\ [][NextAnswer]_vars
    /\ WF_vars(\E p \in SeqPhones : Answer(p))

----------------------------------------------------------------------------
(* Claims *)

Session(p) == user_states[p]

UntabledMoves(state) ==
    CASE state = "confirmation" -> {"service_selection"}
      [] state = "date_selection" -> {"expert_selection"}
      [] OTHER -> {}

Handles(p) == now' = now /\ last'.phone = p

\* C2 as stated: the third invalid input in a row in a selection state leaves
\* neither a session nor a retry entry and tells the recipient to start over.
C2_ThirdInvalidDestroys ==
    \A p \in Phones :
        last.phone = p /\ last.streak = MaxRetries =>
            /\ user_states[p] = NoSession
            /\ retry_counts[p] = 0
            /\ sent[p] = <<Text("too_many_attempts")>>

\* C3 as stated: when a message that is no command moves a live session along
\* the transition table to another state, the retry count is 0 afterwards.
C3_AdvanceClearsRetry ==
    [][\A p \in Phones :
         /\ Handles(p)
         /\ last'.kind = "other"
         /\ user_states[p] # NoSession
         /\ user_states'[p] # NoSession
         /\ user_states'[p].state # user_states[p].state
         /\ user_states'[p].state \in valid_transitions(user_states[p].state)
         => retry_counts'[p] = 0]_vars

\* the session of p has been idle for longer than the limit
Expired(p) == now - user_states[p].last_message_time > TimeoutMinutes

\* the outcome of the timeout: a fresh welcome session, no retry entry, the
\* welcome prompt, and nothing of the message applied to the stores
ReplacedByWelcome(p) ==
    /\ user_states'[p] = NewSession("welcome", Absent, now)
    /\ retry_counts'[p] = 0
    /\ sent'[p] = <<Text("welcome")>>
    /\ appointments' = appointments
    /\ users' = users

\* the outcome is that of the handler of the state the message met
DispatchedInState(p) ==
    \E m \in Inputs(user_states[p].state) :
        \E f \in Faults(user_states[p].state, m) :
            /\ Kind(m) = last'.kind
            /\ Apply(Dispatch([World EXCEPT !.sent[p] = <<>>,
                                            !.us[p].last_message_time = now],
                              p, m, now, f))

\* C4 as stated: every message but a greeting that meets a session idle for more
\* than 30 minutes gets that session replaced by a fresh welcome session; a
\* message that is no command and meets a session idle for 30 minutes or less is
\* handled by the handler of the session's state.
C4_NonGreetingReplaced ==
    [][\A p \in Phones :
         Handles(p) /\ user_states[p] # NoSession /\ last'.kind # "greeting" =>
            IF Expired(p) THEN ReplacedByWelcome(p)
            ELSE last'.kind # "cancel" => DispatchedInState(p)]_vars

\* C4, amended: the same for every message that is neither a greeting nor cancel.
C4_NonCommandReplaced ==
    [][\A p \in Phones :
         Handles(p) /\ user_states[p] # NoSession
                    /\ last'.kind \notin {"greeting", "cancel"} =>
            IF Expired(p) THEN ReplacedByWelcome(p)
            ELSE DispatchedInState(p)]_vars

\* a number sent to a timed-out time_selection session was answered with a fresh
\* welcome session
C4_Witness ==
    /\ last.phone = "A" /\ last.kind = "other" /\ last.pre = "time_selection"
    /\ now > TimeoutMinutes
    /\ Session("A") = NewSession("welcome", Absent, now)
    /\ sent["A"] = <<Text("welcome")>>

\* no handler is suspended
Quiet == \A h \in Handlers : inflight[h] = NotRunning

\* C5 as stated: once the handlers of the messages that arrived have all
\* returned, each phone's session and retry count are those that handling the
\* messages one after the other in arrival order leaves.
C5_AsIfSerial ==
    Quiet => \A p \in Phones : /\ user_states[p] = serial.us[p]
                               /\ retry_counts[p] = serial.rc[p]

\* the appointment that confirm creates for a cart item of p
ItemAppointment(item, p) == Inserted(AppointmentOf(item, Absent), p)

\* the appointments of the first j items of the cart that the last confirm met
PrefixCreated(p, j) == {ItemAppointment(last.pre_cart[i], p) : i \in 1..j}

\* the creation for item k of that cart fails: the call raises, or the store
\* left by the items before it refuses the appointment
CreationFails(p, k) ==
    \/ last.fault = Fault("create_appointment", k)
    \/ CreateRefusedFor(last.pre_appts \cup PrefixCreated(p, k - 1),
                        AppointmentOf(last.pre_cart[k], Absent))

\* recording the created appointment k on its salon fails
LinkFails(k) == last.fault = Fault("salons.update_one", k)

\* item k is the first of the cart whose commit fails
FirstFailure(p, k) ==
    /\ CreationFails(p, k) \/ LinkFails(k)
    /\ \A j \in 1..(k - 1) : ~CreationFails(p, j) /\ ~LinkFails(j)

\* the last message handled was a confirm that met a cart of p
Confirmed(p) == last.phone = p /\ last.kind = "confirm" /\ last.pre_cart # <<>>

\* C6: a confirm whose item k is the first to fail leaves the appointments of the
\* items before k in the store (and that of item k when only its recording on
\* the salon failed), creates nothing for the items after k, sends exactly the
\* one failure message and removes the session and the retry entry.
C6_StopsAtFirstFailure ==
    \A p \in Phones : Confirmed(p) =>
        \A k \in 1..Len(last.pre_cart) : FirstFailure(p, k) =>
            /\ appointments = last.pre_appts \cup
                    PrefixCreated(p, IF CreationFails(p, k) THEN k - 1 ELSE k)
            /\ sent[p] = <<Text("error_creating_appointments")>>
            /\ user_states[p] = NoSession
            /\ retry_counts[p] = 0

\* a confirm of three items created the first two and failed on the third
C6_Witness ==
    /\ Confirmed("A") /\ Len(last.pre_cart) = 3
    /\ FirstFailure("A", 3) /\ CreationFails("A", 3)
    /\ Cardinality(appointments) = Cardinality(last.pre_appts) + 2
    /\ sent["A"] = <<Text("error_creating_appointments")>>

Cart(session) == IF session = NoSession THEN <<>> ELSE session.selected_services

\* the cart never exceeds the limit, and the prompt that lists it offers add more
\* exactly below the limit
CartWithinLimit(p) ==
    /\ Len(Cart(user_states'[p])) <= MaxCartItems
    /\ \A i \in 1..Len(sent'[p]) :
          /\ sent'[p][i].tag = "confirm_prompt_with_add_more"
                => Len(Cart(user_states'[p])) < MaxCartItems
          /\ sent'[p][i].tag = "confirm_prompt"
                => Len(Cart(user_states'[p])) = MaxCartItems

\* an add more that meets a full cart in confirmation
AddMoreAtLimit(p) ==
    /\ Handles(p) /\ last'.kind = "add more"
    /\ user_states[p].state = "confirmation" /\ ~Expired(p)
    /\ Len(user_states[p].selected_services) = MaxCartItems

\* the outcome of an invalid input that the session survives
StaysInConfirmation(p) ==
    /\ user_states'[p] # NoSession
    /\ user_states'[p].state = "confirmation"
    /\ user_states'[p].selected_services = user_states[p].selected_services
    /\ retry_counts'[p] = retry_counts[p] + 1

\* C8 as stated: the cart holds at most 5 items, the prompt of a full cart does
\* not offer add more, and an add more with 5 items leaves the state at
\* confirmation and the cart unchanged and increments the retry count.
C8_AddMoreAtLimitStays ==
    [][\A p \in Phones :
         /\ CartWithinLimit(p)
         /\ AddMoreAtLimit(p) => StaysInConfirmation(p)]_vars

\* C8, amended: the same, except that an add more with 5 items that is the
\* invalid input reaching the retry limit destroys the session.
C8_AddMoreAtLimitInvalid ==
    [][\A p \in Phones :
         /\ CartWithinLimit(p)
         /\ AddMoreAtLimit(p) =>
               IF retry_counts[p] + 1 >= MaxRetries
               THEN /\ user_states'[p] = NoSession
                    /\ retry_counts'[p] = 0
                    /\ sent'[p] = <<Text("too_many_attempts")>>
               ELSE /\ StaysInConfirmation(p)
                    /\ sent'[p] = <<Text("type_confirm_or_cancel")>>]_vars

\* add more met a cart of five items and was answered as an invalid input
C8_Witness ==
    /\ last.phone = "A" /\ last.kind = "add more"
    /\ Len(last.pre_cart) = MaxCartItems
    /\ Session("A").state = "confirmation"
    /\ Session("A").selected_services = last.pre_cart
    /\ retry_counts["A"] > 0
    /\ sent["A"] = <<Text("type_confirm_or_cancel")>>

C10_OfferedSlotsFree ==
    \A p \in Phones :
        user_states[p].state = "time_selection" =>
            \A i \in 1..Len(user_states[p].available_time_slots) :
                LET session == user_states[p]
                    slot == session.available_time_slots[i]
                    hour == HourOfLabel(slot.start_time)
                IN  /\ WeeklyTemplate(session.selected_expert,
                                      Weekday(session.selected_date))[hour - 8]
                    /\ ~\E a \in appointments :
                          /\ a.expert_id = session.selected_expert
                          /\ a.appointment_date.day = session.selected_date
                          /\ a.appointment_time = slot.start_time
                          /\ a.status \in Active

\* C11: a cancel, whatever state it meets and also when it meets no session,
\* leaves the recipient with no session and no retry entry and sends exactly the
\* one cancellation acknowledgment; a second cancel right after it leaves the same
\* stores and sends the same message.
C11_CancelIdempotent ==
    [][\A p \in Phones :
         Handles(p) /\ last'.kind = "cancel" =>
            /\ user_states'[p] = NoSession
            /\ retry_counts'[p] = 0
            /\ sent'[p] = <<Text("cancelled")>>
            /\ appointments' = appointments
            /\ users' = users
            /\ handle_incoming_message([World' EXCEPT !.sent[p] = <<>>],
                                       p, "cancel", now, NoFault) = World']_vars

\* a cancel met no session and was acknowledged
C11_Witness ==
    /\ last.phone = "A" /\ last.kind = "cancel" /\ last.pre = "no_session"
    /\ Session("A") = NoSession
    /\ retry_counts["A"] = 0
    /\ sent["A"] = <<Text("cancelled")>>

\* C12: a greeting, whatever state it meets, replaces the session (cart,
\* selections and retry entry included) by a fresh welcome session and sends the
\* welcome prompt; the session carries the user id exactly when the lookup
\* returned a user, and a lookup that raises or finds nobody leaves it unbound.
C12_GreetingStartsOver ==
    [][\A p \in Phones :
         Handles(p) /\ last'.kind = "greeting" =>
            /\ user_states'[p] =
                  NewSession("welcome",
                             IF users[p] >= 1 /\ last'.fault = NoFault
                             THEN UserId(1) ELSE Absent,
                             now)
            /\ retry_counts'[p] = 0
            /\ sent'[p] = <<Text("welcome")>>
            /\ appointments' = appointments
            /\ users' = users]_vars

\* a greeting met a cart in confirmation while the user lookup raised
C12_Witness ==
    /\ last.phone = "A" /\ last.kind = "greeting" /\ last.pre = "confirmation"
    /\ last.fault = Fault("get_user_by_phone", 1)
    /\ users["A"] >= 1
    /\ Session("A") = NewSession("welcome", Absent, now)
    /\ sent["A"] = <<Text("welcome")>>

\* C14: a password shorter than 8 characters is answered with the re-prompt and
\* nothing else changes: the step is still password, the name, email and address
\* entered are kept, the retry count is as it was and the session lives on,
\* however many short passwords came before.
C14_ShortPasswordReprompts ==
    [][\A p \in Phones :
         Handles(p) /\ last'.password = "short" =>
            /\ user_states'[p] = [user_states[p] EXCEPT !.last_message_time = now]
            /\ user_states'[p].registration_step = "password"
            /\ retry_counts'[p] = retry_counts[p]
            /\ sent'[p] = <<Text("password_too_short")>>
            /\ users' = users]_vars

\* a short password was re-prompted with the three fields still in the session
C14_Witness ==
    /\ last.phone = "A" /\ last.password = "short"
    /\ Session("A").state = "registration"
    /\ Session("A").registration_step = "password"
    /\ Session("A").registration_data.name # Absent
    /\ Session("A").registration_data.email # Absent
    /\ Session("A").registration_data.address # Absent
    /\ sent["A"] = <<Text("password_too_short")>>

\* C15: a password of 8 characters or more, with user creation and the salon
\* lookup succeeding, stores one more user, leaves the session in salon_selection
\* bound to the created user's id with no registration field left, and sends the
\* success text followed by the numbered salon list.
C15_RegistrationCompletes ==
    [][\A p \in Phones :
         /\ Handles(p) /\ last'.password = "long" /\ last'.fault = NoFault
         /\ IsEmail(user_states[p].registration_data.email)
         /\ users[p] < MaxUserRecords
         => /\ users'[p] = users[p] + 1
            /\ user_states'[p] =
                  [NewSession("salon_selection", UserId(users'[p]), now)
                     EXCEPT !.salons = AllSalons]
            /\ sent'[p] = <<List("registration_successful",
                                 <<user_states[p].registration_data.name>>),
                            List("salon_list", Numbered(AllSalons))>>]_vars

\* a registration created the first user of its phone and listed the salons
C15_Witness ==
    /\ last.phone = "A" /\ last.password = "long" /\ last.fault = NoFault
    /\ users["A"] = 1
    /\ Session("A").state = "salon_selection"
    /\ Session("A").user_id = UserId(1)
    /\ Session("A").registration_step = Absent
    /\ sent["A"] = <<List("registration_successful", <<"Jane">>),
                     List("salon_list", Numbered(AllSalons))>>

\* user creation fails: the call raises, or the email entered is refused
CreationFailed(p) ==
    \/ last'.fault = Fault("create_user", 1)
    \/ ~IsEmail(user_states[p].registration_data.email)

\* C16: user creation is attempted only from a session in which name, email and
\* address have been entered; when it fails no user is stored, the session and
\* the retry entry are removed and exactly the one registration-failure text is
\* sent, so that another attempt needs a new session and all four fields again.
C16_FailedRegistrationEnds ==
    [][\A p \in Phones :
         Handles(p) /\ last'.password = "long" =>
            /\ user_states[p].registration_data.name # Absent
            /\ user_states[p].registration_data.email # Absent
            /\ user_states[p].registration_data.address # Absent
            /\ CreationFailed(p) =>
                  /\ user_states'[p] = NoSession
                  /\ retry_counts'[p] = 0
                  /\ sent'[p] = <<Text("registration_failed")>>
                  /\ users' = users]_vars

\* create_user raised at the end of a registration and the session is gone
C16_Witness ==
    /\ last.phone = "A" /\ last.password = "long"
    /\ last.fault = Fault("create_user", 1)
    /\ Session("A") = NoSession
    /\ retry_counts["A"] = 0
    /\ sent["A"] = <<Text("registration_failed")>>

\* C20: a message that is neither a greeting nor cancel, from a recipient with no
\* session, creates a welcome session bound to no user and sends the welcome
\* prompt; nothing else is done with the text.
C20_FirstContactWelcomes ==
    [][\A p \in Phones :
         /\ Handles(p) /\ user_states[p] = NoSession
         /\ last'.kind \notin {"greeting", "cancel"}
         => /\ user_states'[p] = NewSession("welcome", Absent, now)
            /\ retry_counts'[p] = retry_counts[p]
            /\ sent'[p] = <<Text("welcome")>>
            /\ appointments' = appointments
            /\ users' = users]_vars

\* a known user's first message, no greeting, was answered with the welcome prompt
C20_Witness ==
    /\ last.phone = "A" /\ last.kind = "other" /\ last.pre = "no_session"
    /\ users["A"] >= 1
    /\ Session("A") = NewSession("welcome", Absent, now)
    /\ sent["A"] = <<Text("welcome")>>

\* the fixed texts that tell the recipient a step failed and to start over
FailureTexts == {"something_wrong", "trouble_services", "error_loading_services",
                 "trouble_experts", "error_login", "registration_failed",
                 "error_creating_appointments", "error_processing"}

\* C17 as stated: when a collaborator call raises while a message other than a
\* greeting is handled, the recipient is left with no session and no retry entry,
\* and the last text sent is one of the generic failure texts.
C17_FailureDestroysSession ==
    [][\A p \in Phones :
         Handles(p) /\ last'.fault # NoFault /\ last'.kind # "greeting" =>
            /\ user_states'[p] = NoSession
            /\ retry_counts'[p] = 0
            /\ sent'[p] # <<>>
            /\ sent'[p][Len(sent'[p])].tag \in FailureTexts]_vars

\* C13 as stated: once the session of a phone has been destroyed while a handler
\* of that phone is suspended in a collaborator call, the step that resumes the
\* handler leaves that phone's session entry exactly as it found it.
C13_StaleResultDiscarded ==
    [][\A h \in Handlers :
         inflight[h].stale /\ inflight'[h].pc # inflight[h].pc =>
            user_states'[inflight[h].phone] = user_states[inflight[h].phone]]_vars

\* C18 as stated: every handler that is suspended in a collaborator call returns
\* in the end, whether or not the call ever does.
C18_EveryCallReturns ==
    \A h \in Handlers : (inflight[h] # NotRunning) ~> (inflight[h] = NotRunning)

\* C19 as stated: a step of a handler of one phone leaves the session, the retry
\* entry and the outbox of every other phone as they were, and while a handler
\* of A is inside a collaborator call a free coroutine can take a message of B.
C19_OtherRecipientUntouched ==
    [][/\ \A p, q \in Phones :
            Handles(p) /\ q # p =>
               /\ user_states'[q] = user_states[q]
               /\ retry_counts'[q] = retry_counts[q]
               /\ sent'[q] = sent[q]
       /\ \A h, g \in Handlers :
            inflight[h].phone = "A" /\ inflight[g] = NotRunning =>
               \A m \in PairInputs : ENABLED Arrive(g, "B", m)]_vars

\* the list prompt that each selection state answers
ListTag(state) ==
    CASE state = "salon_selection" -> "salon_list"
      [] state = "service_selection" -> "service_list"
      [] state = "expert_selection" -> "expert_list"
      [] state = "date_selection" -> "date_list"
      [] state = "time_selection" -> "time_list"
      [] OTHER -> "none"

\* the text sent last to p while its last message was handled
LastSent(p) == IF sent[p] = <<>> THEN Text("none") ELSE sent[p][Len(sent[p])]

\* what a session holds of the option picked in `state`
Captured(session, state) ==
    CASE state = "salon_selection" -> session.selected_salon
      [] state = "service_selection" -> session.selected_service
      [] state = "expert_selection" -> session.selected_expert
      [] state = "date_selection" -> session.selected_date
      [] OTHER -> session.selected_services[Len(session.selected_services)].time_slot

\* C21 as stated: when the list of the session's state is the text sent last and
\* the recipient answers with a number n of that list, the input is not counted
\* or answered as invalid, and the option the session holds afterwards is the one
\* the list showed under n.
C21_NumberPicksRendered ==
    [][\A p \in SeqPhones :
         \A m \in Inputs(user_states[p].state) :
           \A f \in Faults(user_states[p].state, m) :
             \A i \in 1..Len(LastSent(p).data) :
                /\ user_states[p].state \in SelectionStates
                /\ Idle(user_states[p], now) <= TimeoutMinutes
                /\ LastSent(p).tag = ListTag(user_states[p].state)
                /\ LastSent(p).data[i].n = ParseInt(m)
                /\ Receive(p, m, f)
                => /\ retry_counts'[p] <= retry_counts[p]
                   /\ \A j \in 1..Len(sent'[p]) :
                         sent'[p][j].tag \notin {"invalid_selection", "too_many_attempts"}
                   /\ user_states'[p] # NoSession
                      /\ user_states'[p].state # user_states[p].state
                      => Captured(user_states'[p], user_states[p].state)
                            = LastSent(p).data[i].option]_vars

\* the one-line corrections of the selection handlers
CorrectionTexts == {"enter_valid_number", "invalid_selection"}

\* C22 as stated: an unparseable or out-of-range input in a selection state that
\* is not the one reaching the retry limit leaves the session as it was but for
\* the time of the last message (state, selections, option lists and cart), adds
\* exactly 1 to the retry count and sends exactly one correction text.
C22_InvalidInputReprompts ==
    [][\A p \in Phones :
         Handles(p) /\ last'.streak > 0 /\ retry_counts[p] + 1 < MaxRetries =>
            /\ user_states'[p] = [user_states[p] EXCEPT !.last_message_time = now]
            /\ retry_counts'[p] = retry_counts[p] + 1
            /\ Len(sent'[p]) = 1
            /\ sent'[p][1].tag \in CorrectionTexts]_vars

\* the texts that tell the recipient a list has no options, and the state each
\* of these lists belongs to
EmptyListState(tag) ==
    CASE tag = "no_salons" -> "salon_selection"
      [] tag = "no_services" -> "service_selection"
      [] tag = "no_experts" -> "expert_selection"
      [] tag = "no_slots" -> "time_selection"
      [] OTHER -> "none"

\* the place of a selection state in the booking pass, 0 for any other state
Rank(state) ==
    CASE state = "salon_selection" -> 1
      [] state = "service_selection" -> 2
      [] state = "expert_selection" -> 3
      [] state = "date_selection" -> 4
      [] state = "time_selection" -> 5
      [] OTHER -> 0

\* C23 as stated: a message handled in which the recipient was told that a list
\* is empty leaves the session in a selection state earlier than the state of
\* that list.
C23_EmptyListRoutesBack ==
    [][\A p \in Phones :
         Handles(p) =>
            \A i \in 1..Len(sent'[p]) :
               EmptyListState(sent'[p][i].tag) # "none" =>
                  /\ user_states'[p] # NoSession
                  /\ Rank(user_states'[p].state) >= 1
                  /\ Rank(user_states'[p].state)
                        < Rank(EmptyListState(sent'[p][i].tag))]_vars

\* the step of the handshake handles m for p: the stores become those that
\* handle_incoming_message leaves, whichever collaborator call raises
Handling(p, m) ==
    /\ now' = now
    /\ \E f \in Faults(user_states[p].state, m) :
          handle_incoming_message([World EXCEPT !.sent[p] = <<>>], p, m, now, f) = World'

\* the text of a message without the blanks around it
Trimmed(m) == IF m = " Jane " THEN "Jane" ELSE m

\* the order of the registration steps
StepAfter(step) ==
    CASE step = "name" -> "email"
      [] step = "email" -> "address"
      [] step = "address" -> "password"
      [] OTHER -> "done"

\* C24: a message that reaches the registration handler at step name, email or
\* address is accepted: its trimmed text is stored in the field of that step, the
\* step becomes the next of name, email, address, password and nothing else of
\* the session changes; a password of 8 characters or more ends the registration
\* (salon_selection or no session) and a shorter one leaves the step at password.
C24_RegistrationInOrder ==
    [][\A p \in SeqPhones :
         \A m \in Inputs("registration") :
            /\ user_states[p].state = "registration"
            /\ ~IsCommand(m)
            /\ Idle(user_states[p], now) <= TimeoutMinutes
            /\ Handling(p, m)
            => LET step == RegistrationStep(user_states[p])
               IN  IF step \in {"name", "email", "address"}
                   THEN user_states'[p] =
                           [user_states[p] EXCEPT
                               !.last_message_time = now,
                               !.registration_step = StepAfter(step),
                               !.registration_data[step] = Trimmed(m)]
                   ELSE /\ step = "password"
                        /\ IF StripLen(m) < MinPasswordLen
                           THEN /\ user_states'[p] # NoSession
                                /\ user_states'[p].state = "registration"
                                /\ user_states'[p].registration_step = "password"
                           ELSE \/ user_states'[p] = NoSession
                                \/ user_states'[p].state = "salon_selection"]_vars

\* three messages were accepted in order: the name was stored without the blanks
\* around it, then the email and the address, and the step is password
C24_Witness ==
    /\ last.phone = "A" /\ last.pre = "registration"
    /\ Session("A").state = "registration"
    /\ Session("A").registration_step = "password"
    /\ Session("A").registration_data.name = "Jane"
    /\ Session("A").registration_data.email = "jane@x.com"
    /\ Session("A").registration_data.address = "Jane"
    /\ sent["A"] = <<Text("enter_password")>>

\* the cart item a session in time_selection builds from slot number n
ItemOf(session, n) ==
    [salon |-> session.selected_salon, service |-> session.selected_service,
     expert |-> session.selected_expert, date |-> session.selected_date,
     time_slot |-> session.available_time_slots[n]]

\* C25: a number of the slot list that reaches the time handler leaves the session
\* in confirmation with the cart it had and, at its end, one item more: the
\* selected salon, service, expert and date and the slot of that number.  Every
\* other message leaves the cart as it was, unless it leaves no session or a
\* fresh welcome session.
C25_SlotAppendsOneItem ==
    [][\A p \in SeqPhones :
         /\ \A m \in Inputs("time_selection") :
               /\ user_states[p].state = "time_selection"
               /\ ~IsCommand(m)
               /\ Idle(user_states[p], now) <= TimeoutMinutes
               /\ InRange(ParseInt(m), user_states[p].available_time_slots)
               /\ Handling(p, m)
               => /\ user_states'[p] # NoSession
                  /\ user_states'[p].state = "confirmation"
                  /\ user_states'[p].selected_services =
                        Append(user_states[p].selected_services,
                               ItemOf(user_states[p], ParseInt(m)))
         /\ Handles(p) =>
               \/ Cart(user_states'[p]) = Cart(user_states[p])
               \/ user_states'[p] = NoSession
               \/ user_states'[p].state = "welcome"
               \/ /\ user_states[p].state = "time_selection"
                  /\ user_states'[p].state = "confirmation"
                  /\ Len(Cart(user_states'[p])) = Len(Cart(user_states[p])) + 1]_vars

\* a second pass chose the 11 o'clock slot: the cart holds the item of the first
\* pass and, after it, the new one
C25_Witness ==
    /\ last.phone = "A" /\ last.pre = "time_selection" /\ last.kind = "other"
    /\ Session("A").state = "confirmation"
    /\ Len(Session("A").selected_services) = 2
    /\ Session("A").selected_services[1].time_slot.start_time = "09:00 AM"
    /\ Session("A").selected_services[2].time_slot.start_time = "11:00 AM"
    /\ Session("A").selected_services[2].expert = "E1"

\* C26: a text that reaches the welcome branch, every collaborator call
\* returning: LOGIN binds the session to the user of the phone and lists the
\* salons in salon_selection when the phone has a user, and moves the session to
\* registration when it has none; REGISTER moves it to registration; any other
\* text sends the welcome prompt again and leaves state and retry count alone.
C26_WelcomeBranches ==
    [][\A p \in SeqPhones :
         \A m \in Inputs("welcome") :
            /\ user_states[p].state = "welcome"
            /\ ~IsCommand(m)
            /\ Idle(user_states[p], now) <= TimeoutMinutes
            /\ now' = now
            /\ handle_incoming_message([World EXCEPT !.sent[p] = <<>>],
                                       p, m, now, NoFault) = World'
            => LET toRegistration ==
                      /\ user_states'[p] =
                            [user_states[p] EXCEPT !.last_message_time = now,
                                                   !.state = "registration"]
                      /\ sent'[p] = <<Text("registration_prompt")>>
               IN  CASE m = "LOGIN" ->
                          IF users[p] >= 1
                          THEN /\ user_states'[p] =
                                     [user_states[p] EXCEPT
                                         !.last_message_time = now,
                                         !.state = "salon_selection",
                                         !.user_id = UserId(1),
                                         !.salons = AllSalons]
                               /\ sent'[p] = <<List("salon_list", Numbered(AllSalons))>>
                          ELSE toRegistration
                     [] m = "REGISTER" -> toRegistration
                     [] OTHER ->
                          /\ user_states'[p] =
                                [user_states[p] EXCEPT !.last_message_time = now]
                          /\ retry_counts'[p] = retry_counts[p]
                          /\ sent'[p] = <<Text("welcome")>>]_vars

\* REGISTER from a phone that has a user moved the welcome session to registration
C26_Witness ==
    /\ last.phone = "A" /\ last.pre = "welcome" /\ last.kind = "other"
    /\ users["A"] >= 1
    /\ Session("A").state = "registration"
    /\ Session("A").registration_step = Absent
    /\ sent["A"] = <<Text("registration_prompt")>>

\* C27: after every step a phone has a retry entry only if it has a session, and
\* a message that leaves the phone with no session, or with a fresh welcome
\* session, leaves it with no retry entry.
C27_RetryOnlyWithSession ==
    [][\A p \in Phones :
         /\ retry_counts'[p] > 0 => user_states'[p] # NoSession
         /\ Handles(p) /\ (user_states'[p] = NoSession
                           \/ user_states'[p].state = "welcome")
            => retry_counts'[p] = 0]_vars

\* the third invalid input in salon_selection removed the session and, with it,
\* the retry entry that the first two had left
C27_Witness ==
    /\ last.phone = "A" /\ last.pre = "salon_selection" /\ last.streak = MaxRetries
    /\ Session("A") = NoSession
    /\ retry_counts["A"] = 0
    /\ sent["A"] = <<Text("too_many_attempts")>>

\* C28: while a phone keeps a session its last_message_time never decreases, and
\* a message that is no command and meets a session idle for 30 minutes or less
\* leaves the session, if it leaves one, with last_message_time equal to the
\* time of the message.
C28_ActivityTimeAdvances ==
    [][\A p \in Phones :
         /\ user_states[p] # NoSession /\ user_states'[p] # NoSession
            => user_states'[p].last_message_time >= user_states[p].last_message_time
         /\ /\ Handles(p)
            /\ user_states[p] # NoSession
            /\ last'.kind \notin {"greeting", "cancel"}
            /\ ~Expired(p)
            /\ user_states'[p] # NoSession
            => user_states'[p].last_message_time = now]_vars

\* a salon chosen 30 minutes after the list was sent: the session was not timed
\* out and carries the time of this message
C28_Witness ==
    /\ last.phone = "A" /\ last.pre = "salon_selection" /\ last.kind = "other"
    /\ now = TimeoutMinutes
    /\ Session("A").state = "service_selection"
    /\ Session("A").last_message_time = TimeoutMinutes

\* the registration fields of a session: the step and the four entries
NoDraft(session) ==
    /\ session.registration_step = Absent
    /\ session.registration_data =
          [name |-> Absent, email |-> Absent, address |-> Absent, password |-> Absent]

\* C29 as stated: a session that is in a state other than registration holds no
\* registration step and none of the entered name, email, address and password.
C29_DraftOnlyInRegistration ==
    \A p \in Phones :
        user_states[p] # NoSession /\ user_states[p].state # "registration"
            => NoDraft(user_states[p])

\* the elements of a sequence
Elements(seq) == {seq[i] : i \in 1..Len(seq)}

ListTemplates == {"salon_list", "service_list", "expert_list", "date_list", "time_list"}

CartTemplates == {"confirm_prompt_with_add_more", "confirm_prompt", "all_confirmed"}

\* what the catalogue offers under each list template
DomainOptions(tag) ==
    CASE tag = "salon_list" -> Elements(AllSalons)
      [] tag = "service_list" -> UNION {Elements(SalonServices(s)) : s \in Elements(AllSalons)}
      [] tag = "expert_list" -> UNION {Elements(SalonExperts(s)) : s \in Elements(AllSalons)}
      [] tag = "date_list" -> Elements(NextDays)
      [] tag = "time_list" -> {Slot(label) : label \in Elements(TIME_LABELS)}

\* the fields of a cart item
ItemFields == {"salon", "service", "expert", "date", "time_slot"}

\* a text is a template filled with nothing, with numbered options of the
\* catalogue, or with cart items
OptionData(text) ==
    IF text.tag \in ListTemplates
    THEN \A i \in 1..Len(text.data) : text.data[i].option \in DomainOptions(text.tag)
    ELSE IF text.tag \in CartTemplates
    THEN \A i \in 1..Len(text.data) : DOMAIN text.data[i] = ItemFields
    ELSE text.data = <<>>

\* the names a recipient of the model registers with
EnteredNames == {Strip(m) : m \in Inputs("registration") \cup ConcInputs \cup RegisterInputs}

\* C30 as stated: every text sent is a fixed template filled only with domain
\* option data, and none carries the detail of a caught error.
C30_OnlyOptionData ==
    \A p \in Phones : \A i \in 1..Len(sent[p]) : OptionData(sent[p][i])

\* C30, amended: every text sent is a fixed template filled only with domain
\* option data, except the registration-success text, which is filled with the
\* name the recipient entered; no text, a failure text included, carries the
\* detail of a caught error.
C30_NoErrorDetail ==
    \A p \in Phones : \A i \in 1..Len(sent[p]) :
        IF sent[p][i].tag = "registration_successful"
        THEN /\ Len(sent[p][i].data) = 1
             /\ sent[p][i].data[1] \in EnteredNames
        ELSE OptionData(sent[p][i])

\* a list call raised on a message and its handler answered with a failure text
C30_Witness ==
    /\ last.phone = "A" /\ last.fault = Fault("get_all_salons", 1)
    /\ sent["A"] # <<>>
    /\ sent["A"][Len(sent["A"])] = Text("something_wrong")

\* two stored appointments hold the same bucket of the same expert
SameBucket(a, b) ==
    /\ a.expert_id = b.expert_id
    /\ a.appointment_date = b.appointment_date
    /\ a.appointment_time = b.appointment_time

\* C31 as stated: whatever the interleaving of the confirm steps of different
\* recipients, the appointment store never holds two pending or confirmed
\* appointments of the same expert, date and time bucket.
C31_NoDoubleBooking ==
    \A a, b \in appointments :
        a # b /\ a.status \in Active /\ b.status \in Active => ~SameBucket(a, b)

\* two cart items hold the same slot of the same expert on the same date
SameSlot(x, y) ==
    x.expert = y.expert /\ x.date = y.date /\ x.time_slot = y.time_slot

\* C32 as stated: no cart holds two items with the same expert, date and time
\* slot (a slot placed in the cart is not offered again after add more).
C32_CartSlotsDistinct ==
    \A p \in Phones :
        \A i, j \in 1..Len(Cart(user_states[p])) :
            i # j => ~SameSlot(Cart(user_states[p])[i], Cart(user_states[p])[j])

BookingStates == {"salon_selection", "service_selection", "expert_selection",
                  "date_selection", "time_selection", "confirmation"}

\* C33 as stated: every session in a booking state is bound to a user.
C33_BookingSessionHasUser ==
    \A p \in Phones :
        user_states[p].state \in BookingStates => user_states[p].user_id # Absent

\* C34: a confirm that follows the confirm of a cart creates nothing: it leaves
\* the appointment store as the first left it and is answered with the welcome
\* prompt alone; when the first reached the cart (its session had not timed
\* out) the second finds no session and leaves a fresh welcome session.
C34_SecondConfirmCreatesNothing ==
    [][\A p \in Phones :
         Handles(p) /\ last'.repeat
         => /\ appointments' = appointments
            /\ sent'[p] = <<Text("welcome")>>
            /\ last.pre_cart # <<>>
               => /\ user_states[p] = NoSession
                  /\ user_states'[p] = NewSession("welcome", Absent, now)]_vars

\* the cart was confirmed and its appointments created, and the same confirm
\* came again
C34_Witness ==
    /\ last.phone = "A" /\ last.repeat
    /\ appointments # {}
    /\ Session("A").state = "welcome"
    /\ sent["A"] = <<Text("welcome")>>

\* C35 as stated: at most one user record exists per phone number.
C35_OneUserPerPhone == \A p \in Phones : users[p] <= 1

NoSlotTwice(cart) ==
    \A i, j \in 1..Len(cart) : i # j => ~SameSlot(cart[i], cart[j])

\* the confirm of a cart has just been handled
CommitReached ==
    last.kind = "confirm" /\ last.pre = "confirmation" /\ last.pre_cart # <<>>

\* create_appointment refuses no item of the cart: no slot is twice in it and
\* none is booked in the store the confirm met
NoneRefused(cart, appts) ==
    /\ NoSlotTwice(cart)
    /\ \A i \in 1..Len(cart) :
          LET a == AppointmentOf(cart[i], Absent)
          IN  FindAppointments(appts, a.expert_id, a.appointment_date,
                               a.appointment_time) = {}

====
